---- MODULE Spec2Model ----
(***************************************************************************)
(* The request transport of the memoclaw Python SDK                        *)
(* (python/src/memoclaw/_client.py, errors.py): one logical request        *)
(* driven through its attempt loop, with wallet auth built per attempt,    *)
(* the x402 payment re-send, retry with exponential backoff, and the       *)
(* classification of the final response.                                   *)
(*                                                                         *)
(* Time is counted in milliseconds: 0.5 s is 500.  The clock advances     *)
(* while the transport sleeps; a round trip takes no time.  The server,    *)
(* the network and the x402 package are the environment: every status,     *)
(* header, body, fault and resolver result is drawn from a small set, a    *)
(* header or body at the moment the transport reads it.                    *)
(***************************************************************************)
EXTENDS Integers, Sequences, FiniteSets, TLC

\* ---------------------------------------------------------------- bounds
\* largest max_retries a client is constructed with in the model
MaxRetries == 3

\* ------------------------------------------------------ program constants
\* _RETRYABLE_STATUS_CODES
RETRYABLE_STATUS_CODES == {429, 500, 502, 503, 504}
\* _RETRY_BASE_DELAY = 0.5 (seconds), in milliseconds
RETRY_BASE_DELAY == 500

\* An optional value is a set of at most one element: None is the empty
\* set, a present value x is {x}.
None == {}
Some(x) == {x}
TheValue(o) == CHOOSE x \in o : TRUE

\* ------------------------------------------------------------ environment
\* Status codes the server answers with.
Statuses == {200, 204, 402, 404} \cup RETRYABLE_STATUS_CODES

\* A header value is a sequence of characters.  "sup2" stands for the
\* character U+00B2 (SUPERSCRIPT TWO): str.isdigit() accepts it, float()
\* does not.
DecimalChars == {"0", "1", "2", "3", "4", "5", "6", "7", "8", "9"}
DigitChars == DecimalChars \cup {"sup2"}
\* retry-after headers the server sends: absent (None), empty, "2", "1x"
\* and U+00B2
RetryAfterValues == {None, Some(<<>>), Some(<<"2">>), Some(<<"1", "x">>), Some(<<"sup2">>)}

\* Response bodies, by what json parsing and the error lookup make of them:
\*   error_object  a JSON object whose "error" member is an object
\*   object        a JSON object without an "error" member
\*   not_object    JSON that is no object, or whose "error" is no object
\*   not_json      text that is not JSON (an HTML page, an empty body)
Bodies == {"error_object", "object", "not_object", "not_json"}

\* A header or body the transport has not read
Unread == Some(<<"unread">>)

\* Exceptions httpx raises from a send; the first three are the ones the
\* transport catches.
RetriedFaults == {"ConnectError", "ReadTimeout", "WriteTimeout"}
Faults == RetriedFaults \cup {"ConnectTimeout"}

\* What the x402 package does when asked for payment headers.
X402Behaviours == {"not_installed", "raises", "returns_empty", "returns_headers"}

VARIABLES
    max_retries,      \* self._max_retries
    pc,               \* position of request(): loop, sending, resending, sleeping, done
    attempt,          \* the loop variable
    clock,            \* time.time() in milliseconds
    headers,          \* headers of the current attempt
    response,         \* the local `response`
    payment_headers,  \* the local `payment_headers`
    last_exc,         \* the local `last_exc`
    delay,            \* the argument of the pending sleep
    outcome,          \* what request() returned or raised
    sent,             \* log: one entry per network send
    slept,            \* log: one entry per sleep
    resolver_calls    \* log: number of calls of _try_x402_payment

transport_vars == <<max_retries, pc, attempt, clock, headers, response,
                    payment_headers, last_exc, delay, outcome, sent, slept,
                    resolver_calls>>

\* APIError.from_response on its own (errors.py)
VARIABLES
    resp_status,      \* the argument status_code
    resp_body,        \* the argument body
    raised            \* the exception built, or the one raised on the way

errors_vars == <<resp_status, resp_body, raised>>

\* one operation of the facade MemoClaw / AsyncMemoClaw (client.py)
VARIABLES
    client,                 \* the class constructed
    before_request_hooks,   \* self._before_request_hooks
    after_response_hooks,   \* self._after_response_hooks
    on_error_hooks,         \* self._on_error_hooks
    call,                   \* the operation called, with its arguments
    facade_pc,              \* position: ready, before_request, on_error,
                            \* after_response, done
    hook_index,             \* position of the running for loop over hooks
    run_body,                   \* the local `body` of _run_request
    run_data,                   \* the local `data` of _run_request
    run_exc,                    \* the exception caught on line 206
    result,                 \* what the operation returned or raised
    events                  \* log: hook invocations and transport requests

facade_vars == <<client, before_request_hooks, after_response_hooks,
                 on_error_hooks, call, facade_pc, hook_index, run_body, run_data,
                 run_exc, result, events>>

\* one iteration over iter_memories (client.py)
VARIABLES
    iter_pc,          \* position of the generator: created, list, yield,
                      \* suspended, done, closed
    iteration,        \* how many times iter_memories was called
    requested,        \* log: how many items the consumer has asked for
    offset,           \* the local `offset`
    page,             \* the local `page`
    yield_index,      \* position of `yield from page.memories`
    yielded,          \* log: the items handed to the consumer
    list_calls,       \* log: one entry per call of self.list
    iter_result       \* how the generator ended

pager_vars == <<iter_pc, iteration, requested, offset, page, yield_index,
                yielded, list_calls, iter_result>>

\* the calls of BatchStore.execute (builders.py) on one builder, or one
\* call of delete_batch (client.py)
VARIABLES
    bulk_op,          \* the operation: execute, delete_batch
    bulk_pc,          \* position: ready, loop, done
    pending,          \* self._memories / the argument memory_ids
    submitted,        \* log: the list as it was when the operation was called
    chunk_start,      \* the loop variable `i`
    all_ids,          \* the local `all_ids` of execute
    total_tokens,     \* the local `total_tokens` of execute
    total_deduped,    \* the local `total_deduped` of execute
    results,          \* the local `results` of delete_batch
    chunk_calls,      \* log: one entry per call made for a chunk
    bulk_result,      \* what the operation returned or raised
    executed          \* log: the calls of execute that are over

bulk_vars == <<bulk_op, bulk_pc, pending, submitted, chunk_start, all_ids,
               total_tokens, total_deduped, results, chunk_calls, bulk_result,
               executed>>

\* one call of get_memory_graph (client.py)
VARIABLES
    graph_pc,         \* position: level, node, done
    memory_id,        \* the argument memory_id
    depth,            \* the argument depth
    level,            \* how many rounds of `for _ in range(depth)` have begun
    visited,          \* the local `visited`
    frontier,         \* the local `frontier`
    next_frontier,    \* the local `next_frontier`
    frontier_index,   \* position of `for mid in frontier`
    relation_calls,   \* log: one entry per call of self.list_relations
    graph_result      \* what get_memory_graph returned or raised

graph_vars == <<graph_pc, memory_id, depth, level, visited, frontier,
                next_frontier, frontier_index, relation_calls, graph_result>>

\* the connection pool of one client (client.py, _client.py)
VARIABLES
    pool_client,      \* the class constructed
    pool_state,       \* the state of self._http._http: open, closed
    scope,            \* the with / async with block: outside, inside,
                      \* left_normally, left_by_exception
    close_calls,      \* log: how many times close() was called
    releases,         \* log: how many times the pool was released
    pool_requests     \* log: one entry per request made through the pool

pool_vars == <<pool_client, pool_state, scope, close_calls, releases,
               pool_requests>>

\* the same logical request made through a sync and an async client (_client.py)
VARIABLES
    pair_max_retries, \* self._max_retries of both clients
    sync_run,         \* the request of the _SyncHTTPClient
    async_run         \* the request of the _AsyncHTTPClient

pair_vars == <<pair_max_retries, sync_run, async_run>>

\* several requests made concurrently through one AsyncMemoClaw
VARIABLES
    conc_max_retries, \* self._max_retries of the shared client
    conc_hooks,       \* self._on_error_hooks of the shared client
    tasks             \* the tasks: the request of each, what was seen of it,
                      \* what it was given and what its caller got

conc_vars == <<conc_max_retries, conc_hooks, tasks>>

\* the body of one store, recall or update call
VARIABLES
    build_op,         \* the operation called
    build_args,       \* its arguments, by name
    build_pc,         \* "called" or "built"
    json_body         \* the json argument of _run_request

body_vars == <<build_op, build_args, build_pc, json_body>>

\* the construction of one client
VARIABLES
    ctor_class,       \* MemoClaw or AsyncMemoClaw
    ctor_args,        \* the arguments of __init__, by parameter
    environ,          \* os.environ, by the parameter a variable is for
    config_file,      \* ~/.memoclaw/config.json
    ctor_pc,          \* "called" or "done"
    settings,         \* what the transport was constructed with
    ctor_raised       \* the exception of __init__, if any

config_vars == <<ctor_class, ctor_args, environ, config_file, ctor_pc, settings,
      ctor_raised>>

\* one logical request, from _run_request down to the wire
VARIABLES
    op_client,        \* MemoClaw or AsyncMemoClaw
    op_max_retries,   \* self._max_retries of its transport
    op_hooks,         \* the hooks registered on it, by chain
    op_call,          \* method, path, json and params of the call
    op_pc,            \* where _run_request is
    op_index,         \* position in the hook chain being run
    op_json,          \* body: the running value of the before-request chain
    op_data,          \* data: the running value of the after-response chain
    op_http,          \* the request() call of the transport
    op_log,           \* hooks called and sends made, in order
    op_result         \* what _run_request returned or raised

op_vars == <<op_client, op_max_retries, op_hooks, op_call, op_pc, op_index, op_json,
      op_data, op_http, op_log, op_result>>

vars ==
    <<transport_vars, errors_vars, facade_vars, pager_vars, bulk_vars,
      graph_vars, pool_vars, pair_vars, conc_vars, body_vars, config_vars,
      op_vars>>

\* what the transport leaves alone
other_than_transport ==
    <<errors_vars, facade_vars, pager_vars, bulk_vars, graph_vars,
      pool_vars, pair_vars, conc_vars, body_vars, config_vars, op_vars>>
\* what from_response leaves alone
other_than_errors ==
    <<transport_vars, facade_vars, pager_vars, bulk_vars, graph_vars,
      pool_vars, pair_vars, conc_vars, body_vars, config_vars, op_vars>>
\* what the facade leaves alone
other_than_facade ==
    <<transport_vars, errors_vars, pager_vars, bulk_vars, graph_vars,
      pool_vars, pair_vars, conc_vars, body_vars, config_vars, op_vars>>
\* what iter_memories leaves alone
other_than_pager ==
    <<transport_vars, errors_vars, facade_vars, bulk_vars, graph_vars,
      pool_vars, pair_vars, conc_vars, body_vars, config_vars, op_vars>>
\* what the bulk operations leave alone
other_than_bulk ==
    <<transport_vars, errors_vars, facade_vars, pager_vars, graph_vars,
      pool_vars, pair_vars, conc_vars, body_vars, config_vars, op_vars>>
\* what get_memory_graph leaves alone
other_than_graph ==
    <<transport_vars, errors_vars, facade_vars, pager_vars, bulk_vars,
      pool_vars, pair_vars, conc_vars, body_vars, config_vars, op_vars>>
\* what the pool lifecycle leaves alone
other_than_pool ==
    <<transport_vars, errors_vars, facade_vars, pager_vars, bulk_vars,
      graph_vars, pair_vars, conc_vars, body_vars, config_vars, op_vars>>
\* what the two transports side by side leave alone
other_than_pair ==
    <<transport_vars, errors_vars, facade_vars, pager_vars, bulk_vars,
      graph_vars, pool_vars, conc_vars, body_vars, config_vars, op_vars>>
\* what the concurrent requests leave alone
other_than_conc ==
    <<transport_vars, errors_vars, facade_vars, pager_vars, bulk_vars,
      graph_vars, pool_vars, pair_vars, body_vars, config_vars, op_vars>>
\* what the body builders leave alone
other_than_body ==
    <<transport_vars, errors_vars, facade_vars, pager_vars, bulk_vars,
      graph_vars, pool_vars, pair_vars, conc_vars, config_vars, op_vars>>
\* what the construction leaves alone
other_than_config ==
    <<transport_vars, errors_vars, facade_vars, pager_vars, bulk_vars,
      graph_vars, pool_vars, pair_vars, conc_vars, body_vars, op_vars>>
\* what the logical request leaves alone
other_than_op ==
    <<transport_vars, errors_vars, facade_vars, pager_vars, bulk_vars,
      graph_vars, pool_vars, pair_vars, conc_vars, body_vars, config_vars>>

\* no exception yet
NotRaised == [class |-> "none"]

\* the parts of the model that a specification does not exercise
TransportIdle ==
    /\ max_retries = 0 /\ pc = "idle" /\ attempt = 0 /\ clock = 0
    /\ headers = <<>> /\ payment_headers = {} /\ last_exc = "None"
    /\ response = [status_code |-> 0, retry_after |-> {<<"unread">>}, body |-> "unread"]
    /\ delay = 0
    /\ outcome = [kind |-> "none", what |-> "", status_code |-> 0, code |-> ""]
    /\ sent = <<>> /\ slept = <<>> /\ resolver_calls = 0
ErrorsIdle ==
    /\ resp_status = 0 /\ resp_body = [json |-> "null"] /\ raised = NotRaised
FacadeIdle ==
    /\ client = "none" /\ call = [op |-> "none"] /\ facade_pc = "idle"
    /\ before_request_hooks = <<>> /\ after_response_hooks = <<>>
    /\ on_error_hooks = <<>> /\ hook_index = 0 /\ run_body = {} /\ run_data = {}
    /\ run_exc = [kind |-> "none", what |-> "", status_code |-> 0, code |-> ""]
    /\ result = [kind |-> "none", what |-> "", status_code |-> 0, code |-> ""]
    /\ events = <<>>
PagerIdle ==
    /\ iter_pc = "idle" /\ offset = 0 /\ page = [memories |-> <<>>, total |-> 0]
    /\ iteration = 0 /\ requested = 0
    /\ yield_index = 0 /\ yielded = <<>> /\ list_calls = <<>>
    /\ iter_result = "none"
BulkIdle ==
    /\ bulk_op = "none" /\ bulk_pc = "idle" /\ pending = <<>> /\ submitted = <<>>
    /\ chunk_start = 0 /\ all_ids = <<>> /\ total_tokens = 0
    /\ total_deduped = 0 /\ results = <<>> /\ chunk_calls = <<>>
    /\ bulk_result = [kind |-> "none"] /\ executed = <<>>
GraphIdle ==
    /\ graph_pc = "idle" /\ memory_id = "" /\ depth = 0 /\ level = 0
    /\ visited = <<>> /\ frontier = <<>> /\ next_frontier = <<>>
    /\ frontier_index = 0 /\ relation_calls = <<>>
    /\ graph_result = [kind |-> "none"]
PoolIdle ==
    /\ pool_client = "none" /\ pool_state = "none" /\ scope = "none"
    /\ close_calls = 0 /\ releases = 0 /\ pool_requests = <<>>
PairIdle ==
    /\ pair_max_retries = 0 /\ sync_run = <<>> /\ async_run = <<>>
ConcIdle ==
    /\ conc_max_retries = 0 /\ conc_hooks = <<>> /\ tasks = <<>>
BodyIdle ==
    /\ build_op = "none" /\ build_args = <<>>
    /\ build_pc = "none" /\ json_body = <<>>
ConfigIdle ==
    /\ ctor_class = "none" /\ ctor_args = <<>> /\ environ = <<>>
    /\ config_file = <<>> /\ ctor_pc = "none" /\ settings = <<>>
    /\ ctor_raised = [kind |-> "none", what |-> "", status_code |-> 0, code |-> ""]
OpIdle ==
    /\ op_client = "none" /\ op_max_retries = 0 /\ op_hooks = <<>>
    /\ op_call = <<>> /\ op_pc = "none" /\ op_index = 0 /\ op_json = {}
    /\ op_data = {} /\ op_http = <<>> /\ op_log = <<>>
    /\ op_result = [kind |-> "none", what |-> "", status_code |-> 0, code |-> ""]

\* ------------------------------------------------------------ pure helpers

\* the empty dict and the empty string
EmptyDict == <<>>

\* str.isdigit(): non-empty and every character is a digit
IsDigit(s) == Len(s) > 0 /\ \A i \in 1..Len(s) : s[i] \in DigitChars

\* value of one decimal character
CharValue(c) ==
    CASE c = "0" -> 0 [] c = "1" -> 1 [] c = "2" -> 2 [] c = "3" -> 3
      [] c = "4" -> 4 [] c = "5" -> 5 [] c = "6" -> 6 [] c = "7" -> 7
      [] c = "8" -> 8 [] c = "9" -> 9

RECURSIVE DecimalValue(_)
DecimalValue(s) ==
    IF s = <<>> THEN 0
    ELSE 10 * DecimalValue(SubSeq(s, 1, Len(s) - 1)) + CharValue(s[Len(s)])

\* float(s) raises ValueError unless every character is a decimal digit
\* (of the strings that pass isdigit())
FloatRaises(s) == \E i \in 1..Len(s) : s[i] \notin DecimalChars

\* float(s) seconds, in milliseconds
Float(s) == 1000 * DecimalValue(s)

\* a backoff that does not grow
BackoffConstant(k) == RETRY_BASE_DELAY

\* _RETRY_BASE_DELAY * (2**attempt)
Backoff(k) == RETRY_BASE_DELAY * (2 ^ k)

\* int(time.time())
UnixSeconds(ms) == ms \div 1000

\* a credential built once and cached
GenerateWalletAuthCached(now) ==
    [address |-> "0xAccount",
     timestamp |-> 0,
     signature |-> <<"memoclaw-auth", 0>>]

\* _generate_wallet_auth: address, timestamp and the signature of the
\* message "memoclaw-auth:<timestamp>" (signing is deterministic)
GenerateWalletAuth(now) ==
    [address |-> "0xAccount",
     timestamp |-> UnixSeconds(now),
     signature |-> <<"memoclaw-auth", UnixSeconds(now)>>]

\* _try_x402_payment: None when x402 is missing or create_payment_headers
\* raises, else what create_payment_headers returned
TryX402Payment(x402) ==
    CASE x402 = "not_installed" -> None
      [] x402 = "raises" -> None
      [] x402 = "returns_empty" -> Some(EmptyDict)
      [] x402 = "returns_headers" -> Some("x-payment" :> "paid-token")

\* truthiness of an optional dict or string: neither None nor empty
Truthy(o) == o # None /\ DOMAIN TheValue(o) # {}

\* dict.update
Update(d, e) == e @@ d

\* response.is_success
IsSuccess(status) == status >= 200 /\ status <= 299

\* _STATUS_MAP.get(status_code, APIError)
ErrorClass(status) ==
    CASE status = 400 -> "ValidationError"
      [] status = 401 -> "AuthenticationError"
      [] status = 402 -> "PaymentRequiredError"
      [] status = 403 -> "ForbiddenError"
      [] status = 404 -> "NotFoundError"
      [] status = 422 -> "ValidationError"
      [] status = 429 -> "RateLimitError"
      [] status = 500 -> "InternalServerError"
      [] OTHER -> "APIError"

Returned(value) == [kind |-> "return", what |-> value, status_code |-> 0, code |-> ""]
Raised(exc) == [kind |-> "raise", what |-> exc, status_code |-> 0, code |-> ""]
NoOutcome == [kind |-> "none", what |-> "", status_code |-> 0, code |-> ""]

\* APIError.from_response: body.get("error", {}) and error.get(...) raise
\* AttributeError when the body or its "error" member is no object; the
\* code defaults to "UNKNOWN".  "fallback" is the body _raise_for_status
\* makes up when the response is not JSON.
FromResponse(status, body) ==
    CASE body = "not_object" -> Raised("AttributeError")
      [] body = "error_object" ->
            [kind |-> "raise", what |-> ErrorClass(status),
             status_code |-> status, code |-> "SERVER_CODE"]
      [] body \in {"object", "fallback"} ->
            [kind |-> "raise", what |-> ErrorClass(status),
             status_code |-> status, code |-> "UNKNOWN"]

\* a status check that never raises
RaiseForStatusSilent(resp) == NoOutcome

\* _raise_for_status: NoOutcome when nothing is raised
RaiseForStatus(resp) ==
    IF IsSuccess(resp.status_code) THEN NoOutcome
    ELSE IF resp.body = "not_json"
         THEN FromResponse(resp.status_code, "fallback")
         ELSE FromResponse(resp.status_code, resp.body)

\* a classification that loses the 204 result
FinishLosing204(resp) ==
    IF RaiseForStatus(resp) # NoOutcome THEN RaiseForStatus(resp)
    ELSE IF resp.status_code = 204 THEN NoOutcome
    ELSE IF resp.body = "not_json" THEN Raised("JSONDecodeError")
    ELSE Returned(resp.body)

\* lines 141-145: classification of the final response
Finish(resp) ==
    IF RaiseForStatus(resp) # NoOutcome THEN RaiseForStatus(resp)
    ELSE IF resp.status_code = 204 THEN Returned("{}")
    ELSE IF resp.body = "not_json" THEN Raised("JSONDecodeError")
    ELSE Returned(resp.body)

\* the response object: its status, and the header and body as far as read
Response(status, retry_after, body) ==
    [status_code |-> status, retry_after |-> retry_after, body |-> body]

\* the retry-after header is a hint the claims call well-formed: present,
\* not empty, decimal digits only
WellFormedHint(retry_after) ==
    /\ retry_after \notin {None, Unread}
    /\ Len(TheValue(retry_after)) > 0
    /\ \A i \in 1..Len(TheValue(retry_after)) : TheValue(retry_after)[i] \in DecimalChars

\* the local `response` before the first assignment
Unbound == Response(0, Unread, "unread")

\* ------------------------------------------------------------------ state

Init ==
    /\ max_retries \in (-1)..MaxRetries
    /\ pc = "loop"
    /\ attempt = 0
    /\ clock = 0
    /\ headers = EmptyDict
    /\ response = Unbound
    /\ payment_headers = None
    /\ last_exc = "None"
    /\ delay = 0
    /\ outcome = NoOutcome
    /\ sent = <<>>
    /\ slept = <<>>
    /\ resolver_calls = 0
    /\ ErrorsIdle
    /\ FacadeIdle
    /\ PagerIdle
    /\ BulkIdle
    /\ GraphIdle
    /\ PoolIdle
    /\ PairIdle
    /\ ConcIdle
    /\ BodyIdle
    /\ ConfigIdle
    /\ OpIdle

\* lines 107-113: the loop has another iteration; build the credential and
\* issue the send
Attempt ==
    /\ UNCHANGED other_than_transport
    /\ pc = "loop"
    /\ attempt \in 0..max_retries
    /\ headers' = ("x-wallet-auth" :> GenerateWalletAuth(clock))
    /\ sent' = Append(sent, [attempt |-> attempt, headers |-> headers', at |-> clock])
    /\ pc' = "sending"
    /\ UNCHANGED <<max_retries, attempt, clock, response, payment_headers,
                   last_exc, delay, outcome, slept, resolver_calls>>

\* lines 147-150: the loop ended without return or raise
FallThrough ==
    /\ UNCHANGED other_than_transport
    /\ pc = "loop"
    /\ attempt \notin 0..max_retries
    /\ outcome' = IF last_exc # "None" THEN Raised(last_exc)
                  ELSE IF response = Unbound THEN Raised("UnboundLocalError")
                  ELSE IF RaiseForStatus(response) # NoOutcome THEN RaiseForStatus(response)
                  ELSE Returned("None")
    /\ pc' = "done"
    /\ UNCHANGED <<max_retries, attempt, clock, headers, response, payment_headers,
                   last_exc, delay, sent, slept, resolver_calls>>

\* lines 115-120: the first send of the attempt raises
SendFault(exc) ==
    /\ UNCHANGED other_than_transport
    /\ pc = "sending"
    /\ IF exc \in RetriedFaults
       THEN /\ last_exc' = exc
            /\ IF attempt < max_retries
               THEN /\ delay' = Backoff(attempt)
                    /\ pc' = "sleeping"
                    /\ UNCHANGED outcome
               ELSE /\ outcome' = Raised(exc)
                    /\ pc' = "done"
                    /\ UNCHANGED delay
       ELSE /\ outcome' = Raised(exc)
            /\ pc' = "done"
            /\ UNCHANGED <<last_exc, delay>>
    /\ UNCHANGED <<max_retries, attempt, clock, headers, response, payment_headers,
                   sent, slept, resolver_calls>>

\* lines 131-145, on a response with this status: sleep before a retry, or
\* finish.  The retry-after header is read on line 133, the body by
\* _raise_for_status and response.json(), never for a 204.
AfterResponse(status) ==
    IF status \in RETRYABLE_STATUS_CODES /\ attempt < max_retries
    THEN \E retry_after \in RetryAfterValues :
           /\ response' = Response(status, retry_after, "unread")
           /\ IF Truthy(retry_after) /\ IsDigit(TheValue(retry_after))
              THEN IF FloatRaises(TheValue(retry_after))
                   THEN /\ outcome' = Raised("ValueError")
                        /\ pc' = "done"
                        /\ UNCHANGED delay
                   ELSE /\ delay' = Float(TheValue(retry_after))
                        /\ pc' = "sleeping"
                        /\ UNCHANGED outcome
              ELSE /\ delay' = Backoff(attempt)
                   /\ pc' = "sleeping"
                   /\ UNCHANGED outcome
    ELSE \E body \in IF status = 204 THEN {"unread"} ELSE Bodies :
           /\ response' = Response(status, Unread, body)
           /\ outcome' = Finish(response')
           /\ pc' = "done"
           /\ UNCHANGED delay

\* lines 112-114 and 131-145: the first send is answered, not with 402
Receive(status) ==
    /\ UNCHANGED other_than_transport
    /\ pc = "sending"
    /\ status # 402
    /\ AfterResponse(status)
    /\ UNCHANGED <<max_retries, attempt, clock, headers, payment_headers, last_exc,
                   sent, slept, resolver_calls>>

\* lines 122-129 (and 131-145 when there is no re-send): the first send is
\* answered with 402
ReceivePaymentRequired(x402) ==
    /\ UNCHANGED other_than_transport
    /\ pc = "sending"
    /\ payment_headers' = TryX402Payment(x402)
    /\ resolver_calls' = resolver_calls + 1
    /\ IF Truthy(payment_headers')
       THEN /\ headers' = Update(headers, TheValue(payment_headers'))
            /\ response' = Response(402, Unread, "unread")
            /\ sent' = Append(sent, [attempt |-> attempt, headers |-> headers', at |-> clock])
            /\ pc' = "resending"
            /\ UNCHANGED <<delay, outcome>>
       ELSE /\ AfterResponse(402)
            /\ UNCHANGED <<headers, sent>>
    /\ UNCHANGED <<max_retries, attempt, clock, last_exc, slept>>

\* lines 127-129: the paid re-send raises; it is outside the try block
ResendFault(exc) ==
    /\ UNCHANGED other_than_transport
    /\ pc = "resending"
    /\ outcome' = Raised(exc)
    /\ pc' = "done"
    /\ UNCHANGED <<max_retries, attempt, clock, headers, response, payment_headers,
                   last_exc, delay, sent, slept, resolver_calls>>

\* lines 127-145: the paid re-send is answered
ResendReceive(status) ==
    /\ UNCHANGED other_than_transport
    /\ pc = "resending"
    /\ AfterResponse(status)
    /\ UNCHANGED <<max_retries, attempt, clock, headers, payment_headers, last_exc,
                   sent, slept, resolver_calls>>

\* lines 118-119 and 138-139: time.sleep(delay); continue.  `response` is
\* dead from here on (the next iteration assigns it before any read, and
\* the code after the loop cannot follow a continue), so it is forgotten.
Sleep ==
    /\ UNCHANGED other_than_transport
    /\ pc = "sleeping"
    /\ clock' = clock + delay
    /\ slept' = Append(slept, [attempt |-> attempt, delay |-> delay,
                               after |-> IF response = Unbound THEN "fault" ELSE "status",
                               hinted |-> WellFormedHint(response.retry_after)])
    /\ attempt' = attempt + 1
    /\ response' = Unbound
    /\ pc' = "loop"
    /\ UNCHANGED <<max_retries, headers, payment_headers, last_exc,
                   delay, outcome, sent, resolver_calls>>

Next ==
    \/ Attempt
    \/ FallThrough
    \/ \E exc \in Faults : SendFault(exc)
    \/ \E status \in Statuses : Receive(status)
    \/ \E x402 \in X402Behaviours : ReceivePaymentRequired(x402)
    \/ \E exc \in Faults : ResendFault(exc)
    \/ \E status \in Statuses : ResendReceive(status)
    \/ Sleep

Spec == Init /\ [][Next]_vars

\* the same transport when no step that can be taken is postponed forever:
\* sends complete (the client has a timeout) and sleeps end
FairSpec == Spec /\ WF_vars(Next)

TypeOK ==
    /\ pc \in {"idle", "loop", "sending", "resending", "sleeping", "done"}
    /\ attempt \in 0..(MaxRetries + 1)

\* ------------------------------------------------ vocabulary of the claims

\* the statuses the claims call retryable
TransientStatuses == {429, 500, 502, 503, 504}

\* the typed errors of errors.py
APIErrorClasses ==
    {"APIError", "AuthenticationError", "PaymentRequiredError", "ForbiddenError",
     "NotFoundError", "ValidationError", "RateLimitError", "InternalServerError"}

\* o is the typed error for a response with this status
IsTypedErrorFor(o, status) ==
    o.kind = "raise" /\ o.what \in APIErrorClasses /\ o.status_code = status

IsPaid(entry) == "x-payment" \in DOMAIN entry.headers
Auth(entry) == entry.headers["x-wallet-auth"]
\* the paid re-sends and the first sends of the attempts, as indices of sent
PaidSends == {i \in DOMAIN sent : IsPaid(sent[i])}
FirstSends == DOMAIN sent \ PaidSends

\* the request ended on a send that raised
EndedInFault == pc = "done" /\ outcome.kind = "raise" /\ outcome.what \in Faults

\* ------------------------------------------------------------------ C1
\* C1: with max_retries = N >= 0, a request all of whose responses carry a
\* retryable status issues exactly N+1 attempts and then raises the typed
\* error for the last response; a request that ended after fewer attempts
\* ended on a success or on an attempt that received a non-retryable status.
C1_AllRetryable ==
    /\ pc = "done"
    /\ max_retries >= 0
    /\ last_exc = "None"
    /\ ~EndedInFault
    /\ resolver_calls = 0
    /\ response.status_code \in TransientStatuses

C1_ExactlyNPlusOneAttempts ==
    /\ C1_AllRetryable =>
          /\ Cardinality(FirstSends) = max_retries + 1
          /\ IsTypedErrorFor(outcome, response.status_code)
    /\ (pc = "done" /\ max_retries >= 0 /\ Cardinality(FirstSends) < max_retries + 1) =>
          \/ response.status_code \notin TransientStatuses
          \/ EndedInFault

\* ------------------------------------------------------------------ C2
\* C2: one logical request issues at most one paid re-send, and once a 402
\* has led to a paid re-send the payment resolver is not invoked again.
C2_AtMostOnePaidResend ==
    /\ Cardinality(PaidSends) <= 1
    /\ PaidSends # {} => resolver_calls = 1

\* ------------------------------------------------------------------ C3
\* C3 (as stated): any two distinct sends of one logical request carry
\* credentials with different timestamps.
C3_DistinctTimestamps ==
    \A i, j \in DOMAIN sent :
        i # j => Auth(sent[i]).timestamp # Auth(sent[j]).timestamp

\* C3 (amended): every attempt's first send carries a credential built at
\* the start of that attempt, its timestamp the whole-second Unix time read
\* then, never a credential of an earlier attempt; the paid re-send carries
\* the credential of its own attempt; attempts that start within the same
\* second carry equal timestamps.
C3_FreshCredentialPerAttempt ==
    \A i \in DOMAIN sent :
        IF IsPaid(sent[i])
        THEN /\ i > 1
             /\ ~IsPaid(sent[i - 1])
             /\ sent[i - 1].attempt = sent[i].attempt
             /\ Auth(sent[i]) = Auth(sent[i - 1])
        ELSE /\ Auth(sent[i]).timestamp * 1000 <= sent[i].at
             /\ sent[i].at < Auth(sent[i]).timestamp * 1000 + 1000
             /\ Auth(sent[i]).signature = <<"memoclaw-auth", Auth(sent[i]).timestamp>>

\* three attempts, the first two within one second, the third later, and a
\* paid re-send
C3_Witness ==
    /\ \E i, j, k \in FirstSends :
          /\ i < j /\ j < k
          /\ Auth(sent[i]).timestamp = Auth(sent[j]).timestamp
          /\ Auth(sent[j]).timestamp < Auth(sent[k]).timestamp
    /\ PaidSends # {}

\* ------------------------------------------------------------------ C4
\* C4: a send that fails with ConnectError, ReadTimeout or WriteTimeout is
\* followed by a backoff sleep and a new attempt while the attempt counter
\* is below max_retries; the fault reaches the caller only when no attempts
\* remain.
C4_FaultRaisedOnlyWhenExhausted ==
    (pc = "done" /\ outcome.kind = "raise" /\ outcome.what \in RetriedFaults)
        => attempt >= max_retries

\* ------------------------------------------------------------------ C5
\* C5: a response whose status is neither a success nor retryable (and not
\* a 402 that was re-sent with payment headers) ends the request at
\* once with the typed error for that response: no sleep, no further send.
C5_TerminalStatusRaisesTypedError ==
    ( /\ response # Unbound
      /\ ~IsSuccess(response.status_code)
      /\ response.status_code \notin TransientStatuses
      /\ ~(response.status_code = 402 /\ (pc = "resending" \/ EndedInFault)) )
    => /\ pc = "done"
       /\ IsTypedErrorFor(outcome, response.status_code)

\* ------------------------------------------------------------------ C6
\* C6: a sleep that no well-formed server hint governs lasts 0.5 s * 2^k,
\* k being the attempt it follows, after a network fault as after a
\* retryable status; the k-th sleep of a request follows attempt k, so a
\* request without hints waits 0.5, 1.0, 2.0, ... seconds.
C6_ExponentialBackoff ==
    \A i \in DOMAIN slept :
        /\ slept[i].attempt = i - 1
        /\ ~slept[i].hinted => slept[i].delay = 500 * (2 ^ (i - 1))

\* sleeps of 0.5, 1.0 and 2.0 seconds, after a fault and after a status
C6_Witness ==
    /\ Len(slept) >= 3
    /\ slept[1].delay = 500 /\ slept[2].delay = 1000 /\ slept[3].delay = 2000
    /\ \E i, j \in 1..3 : slept[i].after = "fault" /\ slept[j].after = "status"

\* ------------------------------------------------------------------ C7
\* C7: after a retryable status with attempts remaining the transport
\* sleeps the retry-after value when the header is present and all decimal
\* digits, and the backoff delay of the current attempt when the header is
\* absent, empty or not all digits; in both cases a sleep and a retry
\* follow.
C7_RetryAfterOrBackoff ==
    /\ (pc = "sleeping" /\ response # Unbound) =>
          delay = IF WellFormedHint(response.retry_after)
                  THEN 1000 * DecimalValue(TheValue(response.retry_after))
                  ELSE 500 * (2 ^ attempt)
    /\ (response.status_code \in TransientStatuses /\ attempt < max_retries) =>
          pc = "sleeping"

\* ------------------------------------------------------------------ C8
\* the last attempt of the budget ended in a network fault or in a
\* retryable status
C8_BudgetExhausted ==
    /\ pc = "done"
    /\ max_retries >= 0
    /\ attempt = max_retries
    /\ (EndedInFault \/ response.status_code \in TransientStatuses)

C9_UnpaidPaymentRequired ==
    ( /\ response.status_code = 402
      /\ pc # "resending"
      /\ ~IsPaid(sent[Len(sent)]) )
    => /\ pc = "done"
       /\ ~Truthy(payment_headers)
       /\ outcome.kind = "raise"
       /\ outcome.what = "PaymentRequiredError"
       /\ outcome.status_code = 402

\* ----------------------------------------------------------------- C10
\* the last send was a paid re-send and it was answered with a 2xx
C10_PaidResendSucceeded ==
    /\ pc = "done"
    /\ sent # <<>>
    /\ IsPaid(sent[Len(sent)])
    /\ IsSuccess(response.status_code)

\* the paid re-send follows the first send of its attempt, with the same
\* attempt counter and with that send's headers plus the payment headers
C10_ResendMergesHeaders ==
    \A i \in PaidSends :
        /\ i > 1
        /\ i - 1 \in FirstSends
        /\ sent[i].attempt = sent[i - 1].attempt
        /\ sent[i].headers = ("x-payment" :> "paid-token") @@ sent[i - 1].headers

\* C10: the paid re-send carries the attempt's headers plus the
\* payment headers and does not advance the attempt counter, and a 2xx
\* reply to it is returned to the caller as the result.
C10_PaidResendReturned ==
    /\ C10_ResendMergesHeaders
    /\ C10_PaidResendSucceeded => outcome.kind = "return"

\* ----------------------------------------------------------------- C12
\* C12: for every max_retries >= 0 and every behaviour of server, network
\* and payment resolver, a logical request terminates after at most
\* 2 * (max_retries + 1) network sends with exactly one outcome: it is
\* finished exactly when it has returned a result or raised an error, the
\* outcome once set never changes, and it does finish.
C12_ExactlyOneOutcome ==
    /\ [](max_retries >= 0 =>
            /\ Len(sent) <= 2 * (max_retries + 1)
            /\ (pc = "done") <=> (outcome.kind \in {"return", "raise"})
            /\ (pc # "done") <=> (outcome = NoOutcome))
    /\ [][outcome # NoOutcome => outcome' = outcome]_vars
    /\ (max_retries >= 0) ~> (pc = "done")

\* a request that used retries and a paid re-send and returned a result
C12_Witness ==
    /\ pc = "done"
    /\ max_retries >= 2
    /\ Len(sent) >= 4
    /\ PaidSends # {}
    /\ outcome.kind = "return"

\* =========================================================================
\* APIError.from_response (errors.py), applied to one status and one body
\* =========================================================================

\* JSON values: objects are dicts (functions from member names), strings
\* carry their text; an array stands for every JSON value that is neither
JObject(members) == [json |-> "object", members |-> members]
JString(text) == [json |-> "string", text |-> text]
JArray == [json |-> "array"]

\* the value supports .get(): it is a dict
IsDict(v) == v.json = "object"

\* dict.get(key, default)
DictGet(d, key, default) == IF key \in DOMAIN d THEN d[key] ELSE default

\* a dict with the member when the optional value is present
OptMember(key, o) == IF o = None THEN <<>> ELSE (key :> TheValue(o))

\* _ERROR_SUGGESTIONS
ERROR_SUGGESTIONS ==
    (<<401, "AUTH_ERROR">> :> "Check that your private key is correct")
    @@ (<<402, "PAYMENT_REQUIRED">> :> "Free tier exhausted")
    @@ (<<404, "NOT_FOUND">> :> "The memory ID may have been deleted")
    @@ (<<422, "VALIDATION_ERROR">> :> "Check request payload")
    @@ (<<429, "RATE_LIMITED">> :> "Too many requests")
    @@ (<<500, "INTERNAL_ERROR">> :> "Server error")

\* _ERROR_SUGGESTIONS.get((status_code, code)); the code is a JSON value
SuggestionFor(status_code, code) ==
    IF code.json = "string" /\ <<status_code, code.text>> \in DOMAIN ERROR_SUGGESTIONS
    THEN Some(ERROR_SUGGESTIONS[<<status_code, code.text>>])
    ELSE None

\* APIError.__init__ of the class error_cls
APIErrorInit(error_cls, status_code, code, message, details) ==
    [class |-> error_cls, status_code |-> status_code, code |-> code,
     message |-> message, details |-> details,
     suggestion |-> SuggestionFor(status_code, code)]

\* 'list' (or 'str') object has no attribute 'get'
AttributeError == [class |-> "AttributeError"]

\* APIError.from_response; details is None or the member's value
from_response(status_code, body) ==
    IF ~IsDict(body) THEN AttributeError
    ELSE LET error == DictGet(body.members, "error", JObject(<<>>)) IN
         IF ~IsDict(error) THEN AttributeError
         ELSE APIErrorInit(ErrorClass(status_code), status_code,
                           DictGet(error.members, "code", JString("UNKNOWN")),
                           DictGet(error.members, "message", JString("Unknown error")),
                           IF "details" \in DOMAIN error.members
                           THEN Some(error.members["details"]) ELSE None)

\* a response whose .json() raises; response.text is the text
NotJson(text) == [json |-> "none", text |-> text]

\* _raise_for_status, lines 41-44: the parsed body, or the made-up error
\* object when parsing raises
ParsedBody(body) ==
    IF body.json = "none"
    THEN JObject("error" :> JObject(("code" :> JString("UNKNOWN"))
                                    @@ ("message" :> JString(body.text))))
    ELSE body

\* ---- inputs
\* non-success statuses: those of _STATUS_MAP, and 418, 502 and 503
ErrorStatuses == {400, 401, 402, 403, 404, 418, 422, 429, 500, 502, 503}

\* error codes the server sends: those of _ERROR_SUGGESTIONS and another
ErrorCodes == {"AUTH_ERROR", "PAYMENT_REQUIRED", "NOT_FOUND", "VALIDATION_ERROR",
               "RATE_LIMITED", "INTERNAL_ERROR", "TEAPOT"}

\* error objects: each of code, message and details present or absent
ErrorObjects ==
    { JObject(OptMember("code", c) @@ OptMember("message", m) @@ OptMember("details", d)) :
        c \in {None} \cup {Some(JString(x)) : x \in ErrorCodes},
        m \in {None, Some(JString("Not found"))},
        d \in {None, Some(JObject("field" :> JString("content")))} }

\* response bodies: an array, an object without "error", an object whose
\* "error" is a string, objects whose "error" is an object, and two bodies
\* that are not JSON, one of them empty
ErrorBodies ==
    {JArray, JObject(<<>>), JObject("error" :> JString("not found"))}
    \cup {JObject("error" :> e) : e \in ErrorObjects}
    \cup {NotJson("Bad Gateway"), NotJson("")}

ErrorsInit ==
    /\ resp_status \in ErrorStatuses
    /\ resp_body \in ErrorBodies
    /\ raised = NotRaised
    /\ TransportIdle
    /\ FacadeIdle
    /\ PagerIdle
    /\ BulkIdle
    /\ GraphIdle
    /\ PoolIdle
    /\ PairIdle
    /\ ConcIdle
    /\ BodyIdle
    /\ ConfigIdle
    /\ OpIdle

\* raise APIError.from_response(response.status_code, body)
Classify ==
    /\ raised = NotRaised
    /\ raised' = from_response(resp_status, ParsedBody(resp_body))
    /\ UNCHANGED <<resp_status, resp_body>>
    /\ UNCHANGED other_than_errors

ErrorsNext == Classify

ErrorsSpec == ErrorsInit /\ [][ErrorsNext]_vars

\* ----------------------------------------------------------------- C13
\* the error kind the claim gives for a status
C13_KindOf(status) ==
    CASE status \in {400, 422} -> "ValidationError"
      [] status = 401 -> "AuthenticationError"
      [] status = 402 -> "PaymentRequiredError"
      [] status = 403 -> "ForbiddenError"
      [] status = 404 -> "NotFoundError"
      [] status = 429 -> "RateLimitError"
      [] status = 500 -> "InternalServerError"
      [] OTHER -> "APIError"

\* the known (status, code) pairs
C13_KnownPairs ==
    {<<401, "AUTH_ERROR">>, <<402, "PAYMENT_REQUIRED">>, <<404, "NOT_FOUND">>,
     <<422, "VALIDATION_ERROR">>, <<429, "RATE_LIMITED">>, <<500, "INTERNAL_ERROR">>}

\* the error is of the kind of its status, carries the status and the
\* body's code, message and details (the defaults UNKNOWN, "Unknown error"
\* and None for what the body lacks), and a suggestion exactly for the
\* known pairs
C13_Carries(err, status, error) ==
    /\ err.class = C13_KindOf(status)
    /\ err.status_code = status
    /\ err.code = DictGet(error, "code", JString("UNKNOWN"))
    /\ err.message = DictGet(error, "message", JString("Unknown error"))
    /\ err.details = (IF "details" \in DOMAIN error THEN {error["details"]} ELSE {})
    /\ (err.suggestion # None) <=> (<<status, err.code.text>> \in C13_KnownPairs)

\* the body, once parsed, is an object whose "error" member is absent or
\* an object
C13_BodyIsErrorObject ==
    /\ IsDict(ParsedBody(resp_body))
    /\ "error" \in DOMAIN ParsedBody(resp_body).members =>
          IsDict(ParsedBody(resp_body).members["error"])

\* C13: every terminal non-success response is mapped to an error whose
\* kind is fixed by the status alone (400, 422 Validation; 401
\* Authentication; 402 PaymentRequired; 403 Forbidden; 404 NotFound; 429
\* RateLimit; 500 InternalServer; else the catch-all), carrying the status
\* code, the body's error code, message and details, and a suggestion
\* exactly for the known (status, code) pairs.
C13_ErrorKindByStatus ==
    raised # NotRaised =>
        /\ raised.class = C13_KindOf(resp_status)
        /\ C13_Carries(raised, resp_status,
                       IF C13_BodyIsErrorObject
                          /\ "error" \in DOMAIN ParsedBody(resp_body).members
                       THEN ParsedBody(resp_body).members["error"].members
                       ELSE <<>>)

\* the same for the bodies from_response can read
C13_ErrorKindByStatusOfErrorObjects ==
    (raised # NotRaised /\ C13_BodyIsErrorObject) => C13_ErrorKindByStatus

\* ----------------------------------------------------------------- C33
\* C33: for every terminal non-success response, whatever its body (an
\* error object, text that is not JSON, an empty body, or JSON that is no
\* object with an error object inside), the exception raised is an API
\* error, or a subclass, with the status code of the response; when the
\* body is not JSON its code is UNKNOWN and its message the body's text.
C33_AlwaysAnAPIError ==
    raised # NotRaised =>
       /\ raised.class \in APIErrorClasses
       /\ raised.status_code = resp_status
       /\ resp_body.json = "none" =>
             /\ raised.code = JString("UNKNOWN")
             /\ raised.message = JString(resp_body.text)

\* the same for the bodies that are not JSON and those from_response can read
C33_APIErrorUnlessUnreadable ==
    (raised # NotRaised /\ C13_BodyIsErrorObject) =>
       /\ raised.class \in APIErrorClasses
       /\ raised.status_code = resp_status
       /\ resp_body.json = "none" =>
             /\ raised.code = JString("UNKNOWN")
             /\ raised.message = JString(resp_body.text)

\* =========================================================================
\* The facade (client.py): one operation of MemoClaw / AsyncMemoClaw, from
\* the call through local validation, the before-request hooks, the
\* transport request, and the on-error or after-response hooks
\* =========================================================================

\* ---------------------------------------------------------------- bounds
\* largest number of hooks registered on one client
MaxHooks == 3

\* ------------------------------------------------------ program constants
MAX_BATCH_SIZE == 100

\* ---- arguments
\* strings: "", "  ", "m" and " m"
StringArgs == {<<>>, <<" ", " ">>, <<"m">>, <<" ", "m">>}

\* optional floats, in tenths: None, -0.1, 0.0, 1.0 and 1.1
FloatArgs == {None, Some(-1), Some(0), Some(10), Some(11)}

\* lengths of the lists handed to the batch operations
BatchSizes == {0, 1, 2, MAX_BATCH_SIZE, MAX_BATCH_SIZE + 1}

\* store_batch lists: n dicts with content
StoreLists == {[i \in 1..n |-> "memory"] : n \in BatchSizes}

\* update_batch lists: n dicts with an id, or the last one without
UpdateLists ==
    {[i \in 1..n |-> "with_id"] : n \in BatchSizes}
    \cup {[i \in 1..n |-> IF i = n THEN "without_id" ELSE "with_id"] :
            n \in BatchSizes \ {0}}

Call(op, args) == [op |-> op, args |-> args]

\* the calls made in the model
Calls ==
    {Call("store", [content |-> c, importance |-> i]) :
        c \in StringArgs, i \in FloatArgs}
    \cup {Call("recall", [query |-> q, min_similarity |-> m]) :
        q \in StringArgs, m \in FloatArgs}
    \cup {Call(op, [query |-> q]) : op \in {"assemble_context"}, q \in StringArgs}
    \cup {Call(op, [memory_id |-> id]) :
        op \in {"get", "delete", "list_relations", "get_history"}, id \in StringArgs}
    \cup {Call("create_relation", [memory_id |-> id, target_id |-> t]) :
        id \in StringArgs, t \in StringArgs}
    \cup {Call("delete_relation", [memory_id |-> id, relation_id |-> r]) :
        id \in StringArgs, r \in StringArgs}
    \cup {Call("store_batch", [memories |-> l]) : l \in StoreLists}
    \cup {Call("update_batch", [updates |-> l]) : l \in UpdateLists}

\* ---- local validation
\* str.strip(): without leading and trailing blanks
RECURSIVE Strip(_)
Strip(str) ==
    IF str = <<>> THEN str
    ELSE IF Head(str) = " " THEN Strip(Tail(str))
    ELSE IF str[Len(str)] = " " THEN Strip(SubSeq(str, 1, Len(str) - 1))
    ELSE str

\* _validate_non_empty raises: not value or not value.strip()
validate_non_empty(value) == Len(value) = 0 \/ Len(Strip(value)) = 0

\* a size check that also rejects a full batch
BatchSizeErrorOffByOne(items) == Len(items) = 0 \/ Len(items) >= MAX_BATCH_SIZE

\* store_batch / update_batch raise: not items or len(items) > MAX_BATCH_SIZE
BatchSizeError(items) == Len(items) = 0 \/ Len(items) > MAX_BATCH_SIZE

\* update_batch raises: "id" not in item or not item["id"], for some item
MissingId(items) == \E i \in 1..Len(items) : items[i] = "without_id"

\* the operation raises ValueError before it calls _run_request
LocalError(c) ==
    CASE c.op = "store" -> validate_non_empty(c.args.content)
      [] c.op = "recall" -> validate_non_empty(c.args.query)
      [] c.op = "assemble_context" -> validate_non_empty(c.args.query)
      [] c.op = "get" -> validate_non_empty(c.args.memory_id)
      [] c.op = "get_history" -> validate_non_empty(c.args.memory_id)
      [] c.op = "delete" -> FALSE
      [] c.op = "list_relations" -> FALSE
      [] c.op = "create_relation" -> FALSE
      [] c.op = "delete_relation" -> FALSE
      [] c.op = "store_batch" -> BatchSizeError(c.args.memories)
      [] c.op = "update_batch" ->
            BatchSizeError(c.args.updates) \/ MissingId(c.args.updates)

\* ---- running values of the hook chains
\* a body or payload, and the marks of the hooks that replaced it
Running(base) == [base |-> base, marks |-> <<>>]

\* the json argument of _run_request: None for the operations without body
JsonOf(c) ==
    CASE c.op = "store" ->
            Some(Running(("content" :> c.args.content)
                         @@ OptMember("importance", c.args.importance)))
      [] c.op = "recall" ->
            Some(Running(("query" :> c.args.query)
                         @@ OptMember("min_similarity", c.args.min_similarity)))
      [] c.op = "assemble_context" -> Some(Running("query" :> c.args.query))
      [] c.op = "create_relation" -> Some(Running("target_id" :> c.args.target_id))
      [] c.op = "store_batch" -> Some(Running("memories" :> c.args.memories))
      [] c.op = "update_batch" -> Some(Running("updates" :> c.args.updates))
      [] OTHER -> None

\* what a hook does when invoked
HookBehaviours == {"returns_none", "returns_value", "raises"}
ErrorHookBehaviours == {"returns", "raises"}

\* the return value of the hook at position i with this behaviour, given
\* the running value: None, or a value that carries the hook's mark
HookReturn(behaviour, i, value) ==
    IF behaviour = "returns_value"
    THEN Some([base |-> IF value = None THEN <<>> ELSE TheValue(value).base,
               marks |-> Append(IF value = None THEN <<>> ELSE TheValue(value).marks, i)])
    ELSE None

\* a chain step that drops what the hook returned
ReplacedNever(value, returned) == value

\* lines 202-203 and 212-213: if result is not None: body = result
Replaced(value, returned) == IF returned # None THEN returned ELSE value

\* ---- the transport, seen from the facade
\* what self._http.request does: {} for a 204, a payload, an API error,
\* a network fault, or an AttributeError out of the classification
RequestOutcomes ==
    {Returned("{}"), Returned("object"), Returned("error_object"),
     FromResponse(404, "error_object"), Raised("ConnectError"),
     Raised("AttributeError")}

\* Model.model_validate(data) raises: every result model has required
\* fields, which {} and an error object lack
ModelValidateRaises(payload) == payload.base # "object"

Event(kind, i, value, what) ==
    [event |-> kind, hook |-> i, value |-> value, outcome |-> what]

\* ---- state
FacadeInit ==
    /\ client \in {"MemoClaw", "AsyncMemoClaw"}
    /\ before_request_hooks = <<>>
    /\ after_response_hooks = <<>>
    /\ on_error_hooks = <<>>
    /\ call = [op |-> "none"]
    /\ facade_pc = "ready"
    /\ hook_index = 0
    /\ run_body = None
    /\ run_data = None
    /\ run_exc = NoOutcome
    /\ result = NoOutcome
    /\ events = <<>>
    /\ TransportIdle
    /\ ErrorsIdle
    /\ PagerIdle
    /\ BulkIdle
    /\ GraphIdle
    /\ PoolIdle
    /\ PairIdle
    /\ ConcIdle
    /\ BodyIdle
    /\ ConfigIdle
    /\ OpIdle

HooksRegistered ==
    Len(before_request_hooks) + Len(after_response_hooks) + Len(on_error_hooks)

\* on_before_request(hook)
OnBeforeRequest(behaviour) ==
    /\ facade_pc = "ready"
    /\ HooksRegistered < MaxHooks
    /\ before_request_hooks' = Append(before_request_hooks, behaviour)
    /\ UNCHANGED <<client, after_response_hooks, on_error_hooks, call, facade_pc,
                   hook_index, run_body, run_data, run_exc, result, events>>
    /\ UNCHANGED other_than_facade

\* on_after_response(hook)
OnAfterResponse(behaviour) ==
    /\ facade_pc = "ready"
    /\ HooksRegistered < MaxHooks
    /\ after_response_hooks' = Append(after_response_hooks, behaviour)
    /\ UNCHANGED <<client, before_request_hooks, on_error_hooks, call, facade_pc,
                   hook_index, run_body, run_data, run_exc, result, events>>
    /\ UNCHANGED other_than_facade

\* on_error(hook)
OnError(behaviour) ==
    /\ facade_pc = "ready"
    /\ HooksRegistered < MaxHooks
    /\ on_error_hooks' = Append(on_error_hooks, behaviour)
    /\ UNCHANGED <<client, before_request_hooks, after_response_hooks, call,
                   facade_pc, hook_index, run_body, run_data, run_exc, result, events>>
    /\ UNCHANGED other_than_facade

\* an operation is called: local validation, then the body is built and
\* _run_request entered (line 199)
Invoke(c) ==
    /\ facade_pc = "ready"
    /\ call' = c
    /\ IF LocalError(c)
       THEN /\ result' = Raised("ValueError")
            /\ facade_pc' = "done"
            /\ UNCHANGED <<run_body, hook_index>>
       ELSE /\ run_body' = JsonOf(c)
            /\ hook_index' = 1
            /\ facade_pc' = "before_request"
            /\ UNCHANGED result
    /\ UNCHANGED <<client, before_request_hooks, after_response_hooks,
                   on_error_hooks, run_data, run_exc, events>>
    /\ UNCHANGED other_than_facade

\* lines 200-203: one iteration of the loop over the before-request hooks
RunBeforeRequestHook ==
    /\ facade_pc = "before_request"
    /\ hook_index <= Len(before_request_hooks)
    /\ events' = Append(events, Event("before_request", hook_index, run_body, NoOutcome))
    /\ IF before_request_hooks[hook_index] = "raises"
       THEN /\ result' = Raised("HookError")
            /\ facade_pc' = "done"
            /\ UNCHANGED <<run_body, hook_index>>
       ELSE /\ run_body' = Replaced(run_body,
                   HookReturn(before_request_hooks[hook_index], hook_index, run_body))
            /\ hook_index' = hook_index + 1
            /\ UNCHANGED <<result, facade_pc>>
    /\ UNCHANGED <<client, before_request_hooks, after_response_hooks,
                   on_error_hooks, call, run_data, run_exc>>
    /\ UNCHANGED other_than_facade

\* lines 204-206: self._http.request(method, path, json=body, params=params)
\* returns or raises
HttpRequest(o) ==
    /\ facade_pc = "before_request"
    /\ hook_index > Len(before_request_hooks)
    /\ events' = Append(events, Event("request", 0, run_body, o))
    /\ IF o.kind = "raise"
       THEN /\ run_exc' = o
            /\ facade_pc' = "on_error"
            /\ UNCHANGED run_data
       ELSE /\ run_data' = Some(Running(o.what))
            /\ facade_pc' = "after_response"
            /\ UNCHANGED run_exc
    /\ hook_index' = 1
    /\ UNCHANGED <<client, before_request_hooks, after_response_hooks,
                   on_error_hooks, call, run_body, result>>
    /\ UNCHANGED other_than_facade

\* lines 207-208: one iteration of the loop over the on-error hooks; an
\* exception of the hook leaves the except block in place of the caught one
RunOnErrorHook ==
    /\ facade_pc = "on_error"
    /\ hook_index <= Len(on_error_hooks)
    /\ events' = Append(events, Event("on_error", hook_index, None, run_exc))
    /\ IF on_error_hooks[hook_index] = "raises"
       THEN /\ result' = Raised("HookError")
            /\ facade_pc' = "done"
            /\ UNCHANGED hook_index
       ELSE /\ hook_index' = hook_index + 1
            /\ UNCHANGED <<result, facade_pc>>
    /\ UNCHANGED <<client, before_request_hooks, after_response_hooks,
                   on_error_hooks, call, run_body, run_data, run_exc>>
    /\ UNCHANGED other_than_facade

\* line 209: raise
Reraise ==
    /\ facade_pc = "on_error"
    /\ hook_index > Len(on_error_hooks)
    /\ result' = run_exc
    /\ facade_pc' = "done"
    /\ UNCHANGED <<client, before_request_hooks, after_response_hooks,
                   on_error_hooks, call, hook_index, run_body, run_data, run_exc, events>>
    /\ UNCHANGED other_than_facade

\* lines 210-213: one iteration of the loop over the after-response hooks
RunAfterResponseHook ==
    /\ facade_pc = "after_response"
    /\ hook_index <= Len(after_response_hooks)
    /\ events' = Append(events, Event("after_response", hook_index, run_data, NoOutcome))
    /\ IF after_response_hooks[hook_index] = "raises"
       THEN /\ result' = Raised("HookError")
            /\ facade_pc' = "done"
            /\ UNCHANGED <<run_data, hook_index>>
       ELSE /\ run_data' = Replaced(run_data,
                   HookReturn(after_response_hooks[hook_index], hook_index, run_data))
            /\ hook_index' = hook_index + 1
            /\ UNCHANGED <<result, facade_pc>>
    /\ UNCHANGED <<client, before_request_hooks, after_response_hooks,
                   on_error_hooks, call, run_body, run_exc>>
    /\ UNCHANGED other_than_facade

\* line 214 and the operation's last line: return data, then
\* Model.model_validate(data)
ReturnValidated ==
    /\ facade_pc = "after_response"
    /\ hook_index > Len(after_response_hooks)
    /\ result' = IF ModelValidateRaises(TheValue(run_data))
                 THEN Raised("pydantic.ValidationError")
                 ELSE Returned("model")
    /\ facade_pc' = "done"
    /\ UNCHANGED <<client, before_request_hooks, after_response_hooks,
                   on_error_hooks, call, hook_index, run_body, run_data, run_exc, events>>
    /\ UNCHANGED other_than_facade

FacadeNext ==
    \/ \E behaviour \in HookBehaviours : OnBeforeRequest(behaviour)
    \/ \E behaviour \in HookBehaviours : OnAfterResponse(behaviour)
    \/ \E behaviour \in ErrorHookBehaviours : OnError(behaviour)
    \/ \E c \in Calls : Invoke(c)
    \/ RunBeforeRequestHook
    \/ \E o \in RequestOutcomes : HttpRequest(o)
    \/ RunOnErrorHook
    \/ Reraise
    \/ RunAfterResponseHook
    \/ ReturnValidated

FacadeSpec == FacadeInit /\ [][FacadeNext]_vars

FacadeTypeOK ==
    /\ facade_pc \in {"ready", "before_request", "on_error", "after_response", "done"}
    /\ HooksRegistered <= MaxHooks
    /\ (facade_pc = "done") <=> (result # NoOutcome)

\* ------------------------------------------------ vocabulary of the claims

\* the transport requests of the operation, as indices of events
Requests == {i \in DOMAIN events : events[i].event = "request"}

\* the operation ended with the local validation error, without a request
RaisedLocally ==
    /\ facade_pc = "done"
    /\ result = Raised("ValueError")
    /\ Requests = {}

\* ----------------------------------------------------------------- C11
\* the transport's part of C11: a final response with status 204 makes
\* request() return {}
C11_TransportReturnsEmpty ==
    (pc = "done" /\ response.status_code = 204) => outcome = Returned("{}")

\* C11: whenever the response that ends a logical request has status 204
\* (the transport's request returns {}), the caller receives an empty
\* successful result and never an error, on whichever attempt the 204
\* arrives.
C11_NoContentIsEmptySuccess ==
    /\ C11_TransportReturnsEmpty
    /\ ( /\ facade_pc = "done"
         /\ \E i \in Requests : events[i].outcome = Returned("{}")
         /\ result # Raised("HookError") )
       => result.kind = "return"

\* ----------------------------------------------------------------- C14
\* empty or whitespace-only
C14_Blank(str) == \A i \in 1..Len(str) : str[i] = " "

\* the arguments the claim lists for the operation
C14_ListedArguments(c) ==
    CASE c.op = "store" -> {c.args.content}
      [] c.op \in {"recall", "assemble_context"} -> {c.args.query}
      [] c.op \in {"get", "delete", "list_relations", "get_history"} -> {c.args.memory_id}
      [] c.op = "create_relation" -> {c.args.memory_id, c.args.target_id}
      [] c.op = "delete_relation" -> {c.args.memory_id, c.args.relation_id}
      [] OTHER -> {}

\* C14: an operation called (on the sync or the async client) with an
\* empty or whitespace-only content, query or id raises a local validation
\* error before any network attempt is made.
C14_BlankArgumentRaisesLocally ==
    (facade_pc # "ready" /\ \E v \in C14_ListedArguments(call) : C14_Blank(v))
        => RaisedLocally

\* ----------------------------------------------------------------- C15
\* a float outside [0, 1], in tenths
C15_OutOfRange(o) == o # None /\ (TheValue(o) < 0 \/ TheValue(o) > 10)

\* C15: a store call whose importance is outside [0,1] and a recall call
\* whose min_similarity is outside [0,1] fail with a local validation
\* error, and no network attempt is issued.
C15_RangeCheckedLocally ==
    ( /\ facade_pc # "ready"
      /\ \/ call.op = "store" /\ C15_OutOfRange(call.args.importance)
         \/ call.op = "recall" /\ C15_OutOfRange(call.args.min_similarity) )
    => RaisedLocally

\* ----------------------------------------------------------------- C16
\* a batch operation was called
C16_BatchCalled == facade_pc # "ready" /\ call.op \in {"store_batch", "update_batch"}

\* the list it was called with
C16_Items == IF call.op = "store_batch" THEN call.args.memories ELSE call.args.updates

\* C16 (as stated): store_batch and update_batch raise a local error, with
\* no network attempt, when the list is empty or holds more than 100
\* items; a list of 1 to 100 items is sent in exactly one network call.
C16_BatchSizeChecked ==
    C16_BatchCalled =>
        IF Len(C16_Items) = 0 \/ Len(C16_Items) > 100
        THEN RaisedLocally
        ELSE facade_pc = "done" => Cardinality(Requests) = 1

\* C16 (amended): the batch operations raise a local error, with no
\* transport request, when the list is empty or holds more than 100 items,
\* and update_batch also when an item has no id; every other list is handed
\* whole to the transport in one request, never more, and in exactly one
\* once the operation has ended, unless a before-request hook raised.
C16_BatchSentOnce ==
    C16_BatchCalled =>
        IF Len(C16_Items) = 0 \/ Len(C16_Items) > 100
        THEN RaisedLocally
        ELSE IF call.op = "update_batch"
                /\ \E i \in 1..Len(C16_Items) : C16_Items[i] = "without_id"
        THEN RaisedLocally
        ELSE /\ result # Raised("ValueError")
             /\ Cardinality(Requests) <= 1
             /\ \A i \in Requests :
                   TheValue(events[i].value).marks = <<>> =>
                       \E key \in {"memories", "updates"} :
                           TheValue(events[i].value).base = (key :> C16_Items)
             /\ (facade_pc = "done" /\ Requests = {}) =>
                   /\ result = Raised("HookError")
                   /\ \E i \in 1..Len(before_request_hooks) :
                         before_request_hooks[i] = "raises"

\* a full batch of 100 items, stored with one request
C16_Witness ==
    /\ facade_pc = "done"
    /\ call.op = "store_batch"
    /\ Len(call.args.memories) = MAX_BATCH_SIZE
    /\ Cardinality(Requests) = 1
    /\ result.kind = "return"

\* ----------------------------------------------------------------- C17
IsBeforeRequestEvent(e) == e.event = "before_request"
IsAfterResponseEvent(e) == e.event = "after_response"

\* the running value of a chain after its first n hooks have returned
RECURSIVE C17_ValueAfter(_, _, _)
C17_ValueAfter(hooks, start, n) ==
    IF n = 0 THEN start
    ELSE LET before == C17_ValueAfter(hooks, start, n - 1)
             returned == HookReturn(hooks[n], n, before)
         IN IF hooks[n] = "returns_none" THEN before ELSE returned

\* the payload the transport returned to the operation
C17_Payload ==
    Some(Running(events[CHOOSE i \in Requests : TRUE].outcome.what))

\* C17: in the before-request chain (running value: the outgoing body) and
\* in the after-response chain (running value: the returned payload) the
\* hooks are invoked in registration order, each receives the running value
\* left by its predecessors, a non-null return replaces the running value
\* and a null return leaves it; the value after the last hook is what is
\* sent to the transport, respectively returned by _run_request.
C17_ChainsInOrder ==
    LET b == SelectSeq(events, IsBeforeRequestEvent)
        a == SelectSeq(events, IsAfterResponseEvent)
    IN /\ \A k \in 1..Len(b) :
             /\ b[k].hook = k
             /\ b[k].value = C17_ValueAfter(before_request_hooks, JsonOf(call), k - 1)
       /\ \A i \in Requests :
             /\ i = Len(before_request_hooks) + 1
             /\ Len(b) = Len(before_request_hooks)
             /\ events[i].value = C17_ValueAfter(before_request_hooks, JsonOf(call),
                                                 Len(before_request_hooks))
       /\ \A k \in 1..Len(a) :
             /\ a[k].hook = k
             /\ a[k].value = C17_ValueAfter(after_response_hooks, C17_Payload, k - 1)
       /\ (facade_pc = "done" /\ result.kind = "return") =>
             /\ Len(a) = Len(after_response_hooks)
             /\ run_data = C17_ValueAfter(after_response_hooks, C17_Payload,
                                          Len(after_response_hooks))

\* an operation that returned after two before-request hooks, of which the
\* first replaced the body, and an after-response hook that replaced the
\* payload
C17_Witness ==
    /\ facade_pc = "done"
    /\ result.kind = "return"
    /\ before_request_hooks = <<"returns_value", "returns_none">>
    /\ after_response_hooks = <<"returns_value">>
    /\ \E i \in Requests : TheValue(events[i].value).marks = <<1>>
    /\ TheValue(run_data).marks = <<1>>

\* ----------------------------------------------------------------- C18
\* C18: whatever the registered on-error hooks do, the exception that
\* reaches the caller of a failed operation is the original exception
\* raised by the transport.
C18_OriginalExceptionPropagates ==
    (facade_pc = "done" /\ run_exc # NoOutcome) => result = run_exc

\* ----------------------------------------------------------------- C19
\* the invocations of the on-error hook at position h with this exception
C19_Observations(h, error) ==
    {i \in DOMAIN events : /\ events[i].event = "on_error"
                           /\ events[i].hook = h
                           /\ events[i].outcome = error}

\* C19: every exception a facade operation raises to its caller has been
\* observed by each registered on-error hook exactly once, after the
\* transport's retries and classification and before it propagates.
C19_EveryErrorObserved ==
    (facade_pc = "done" /\ result.kind = "raise") =>
        \A h \in 1..Len(on_error_hooks) :
            /\ Cardinality(C19_Observations(h, result)) = 1
            /\ \A i \in C19_Observations(h, result) : \A j \in Requests : j < i

\* the same for the exceptions the transport raised, when no on-error hook
\* raises
C19_TransportErrorsObserved ==
    ( /\ facade_pc = "done"
      /\ run_exc # NoOutcome
      /\ \A h \in 1..Len(on_error_hooks) : on_error_hooks[h] # "raises" )
    => /\ result = run_exc
       /\ \A h \in 1..Len(on_error_hooks) :
             /\ Cardinality(C19_Observations(h, result)) = 1
             /\ \A i \in C19_Observations(h, result) : \A j \in Requests : j < i

\* =========================================================================
\* iter_memories (client.py): the pagination generator, driven by a
\* consumer that asks for one item at a time and may stop at any item,
\* against a server that answers each list call with any page and any total
\* =========================================================================

\* ---------------------------------------------------------------- bounds
\* largest number of list calls of one iteration
MaxListCalls == 3
\* largest number of memories on a page
MaxPageSize == 2
\* largest total the server reports
MaxTotal == 5
\* largest number of calls of iter_memories
MaxIterations == 2

\* the page of the k-th list call: n memories, named by call and position
Page(k, n, total) == [memories |-> [j \in 1..n |-> <<k, j>>], total |-> total]

\* the local `page` before the first assignment
NoPage == [memories |-> <<>>, total |-> 0]

\* a loop that goes on until a page is empty
ExhaustedWhenEmpty(off, pg) == pg.memories = <<>>

\* line 385: offset >= page.total or not page.memories
Exhausted(off, pg) == off >= pg.total \/ pg.memories = <<>>

\* a function that runs its body when it is called
GeneratorStartEager == "list"

\* line 360: the body holds a yield, so that calling iter_memories runs
\* none of it and returns a generator that has not started
GeneratorStart == "created"

PagerInit ==
    /\ iter_pc = GeneratorStart
    /\ iteration = 1
    /\ requested = 0
    /\ offset = 0
    /\ page = NoPage
    /\ yield_index = 0
    /\ yielded = <<>>
    /\ list_calls = <<>>
    /\ iter_result = "none"
    /\ TransportIdle
    /\ ErrorsIdle
    /\ FacadeIdle
    /\ BulkIdle
    /\ GraphIdle
    /\ PoolIdle
    /\ PairIdle
    /\ ConcIdle
    /\ BodyIdle
    /\ ConfigIdle
    /\ OpIdle

\* lines 375-382: self.list(limit=batch_size, offset=offset, ...) returns
ListPage(n, total) ==
    /\ iter_pc = "list"
    /\ Len(list_calls) < MaxListCalls
    /\ page' = Page(Len(list_calls) + 1, n, total)
    /\ list_calls' = Append(list_calls, [offset |-> offset, raised |-> FALSE,
                                         memories |-> page'.memories,
                                         total |-> total])
    /\ yield_index' = 1
    /\ iter_pc' = "yield"
    /\ UNCHANGED <<iteration, requested, offset, yielded, iter_result>>
    /\ UNCHANGED other_than_pager

\* lines 375-382: self.list raises (the transport's error, or the
\* validation error of the page); the generator ends with it
ListRaises ==
    /\ iter_pc = "list"
    /\ Len(list_calls) < MaxListCalls
    /\ list_calls' = Append(list_calls, [offset |-> offset, raised |-> TRUE,
                                         memories |-> <<>>, total |-> 0])
    /\ iter_result' = "raised"
    /\ iter_pc' = "done"
    /\ UNCHANGED <<iteration, requested, offset, page, yield_index, yielded>>
    /\ UNCHANGED other_than_pager

\* line 383: yield from page.memories, one item; the generator is
\* suspended until the consumer asks again
YieldItem ==
    /\ iter_pc = "yield"
    /\ yield_index <= Len(page.memories)
    /\ yielded' = Append(yielded, page.memories[yield_index])
    /\ yield_index' = yield_index + 1
    /\ iter_pc' = "suspended"
    /\ UNCHANGED <<iteration, requested, offset, page, list_calls, iter_result>>
    /\ UNCHANGED other_than_pager

\* lines 384-386: the page is used up; advance the offset, then break or
\* go round the loop
Advance ==
    /\ iter_pc = "yield"
    /\ yield_index > Len(page.memories)
    /\ offset' = offset + Len(page.memories)
    /\ IF Exhausted(offset', page)
       THEN /\ iter_pc' = "done"
            /\ iter_result' = "exhausted"
       ELSE /\ iter_pc' = "list"
            /\ UNCHANGED iter_result
    /\ UNCHANGED <<iteration, requested, page, yield_index, yielded,
                   list_calls>>
    /\ UNCHANGED other_than_pager

\* the consumer asks for the next item (next(), one round of the for
\* loop): a generator that has not started runs from line 374, a
\* suspended one goes on after its yield
ConsumerNext ==
    /\ iter_pc \in {"created", "suspended"}
    /\ iter_pc' = IF iter_pc = "created" THEN "list" ELSE "yield"
    /\ requested' = requested + 1
    /\ UNCHANGED <<iteration, offset, page, yield_index, yielded, list_calls,
                   iter_result>>
    /\ UNCHANGED other_than_pager

\* the consumer stops early (break, close(), dropping the generator):
\* GeneratorExit is raised at the yield and nothing of lines 374-386
\* catches it
ConsumerStop ==
    /\ iter_pc \in {"created", "suspended"}
    /\ iter_pc' = "closed"
    /\ iter_result' = "closed"
    /\ UNCHANGED <<iteration, requested, offset, page, yield_index, yielded,
                   list_calls>>
    /\ UNCHANGED other_than_pager

\* lines 360-374: iter_memories is called again; the new generator has
\* its own locals, and the logs start again with it
IterMemories ==
    /\ iter_pc \in {"done", "closed"}
    /\ iteration < MaxIterations
    /\ iteration' = iteration + 1
    /\ iter_pc' = GeneratorStart
    /\ requested' = 0
    /\ offset' = 0
    /\ page' = NoPage
    /\ yield_index' = 0
    /\ yielded' = <<>>
    /\ list_calls' = <<>>
    /\ iter_result' = "none"
    /\ UNCHANGED other_than_pager

PagerNext ==
    \/ \E n \in 0..MaxPageSize, total \in 0..MaxTotal : ListPage(n, total)
    \/ ListRaises
    \/ YieldItem
    \/ Advance
    \/ ConsumerNext
    \/ ConsumerStop
    \/ IterMemories

PagerSpec == PagerInit /\ [][PagerNext]_vars

\* ----------------------------------------------------------------- C20
\* the number of items on the first k pages
RECURSIVE C20_Cumulative(_)
C20_Cumulative(k) ==
    IF k = 0 THEN 0 ELSE C20_Cumulative(k - 1) + Len(list_calls[k].memories)

\* the items of the first k pages, page after page
RECURSIVE C20_Items(_)
C20_Items(k) ==
    IF k = 0 THEN <<>> ELSE C20_Items(k - 1) \o list_calls[k].memories

\* the k-th page is empty or brings the count up to the total it reports
C20_LastPage(k) ==
    \/ list_calls[k].memories = <<>>
    \/ C20_Cumulative(k) >= list_calls[k].total

\* C20: the list calls have the offsets 0 and thereafter the cumulative
\* number of items yielded so far; every item of every returned page is
\* yielded exactly once and in order; the iteration stops right after the
\* first page that is empty or that brings the cumulative count up to the
\* server-reported total (pages of sizes 2, 2, 1 with total 5: 5 items,
\* 3 list calls with offsets 0, 2, 4).
C20_OffsetsAndStop ==
    LET n == Len(list_calls) IN
    /\ \A k \in 1..n : list_calls[k].offset = C20_Cumulative(k - 1)
    /\ iter_pc = "list" => Len(yielded) = offset /\ yielded = C20_Items(n)
    /\ iter_pc \in {"yield", "suspended"} =>
          yielded = C20_Items(n - 1) \o SubSeq(page.memories, 1, yield_index - 1)
    /\ iter_pc = "done" => yielded = C20_Items(n)
    /\ \A i, j \in 1..Len(yielded) : i # j => yielded[i] # yielded[j]
    /\ \A k \in 1..(n - 1) : ~list_calls[k].raised /\ ~C20_LastPage(k)
    /\ (iter_pc = "list" /\ n > 0) => ~C20_LastPage(n)
    /\ iter_pc = "done" => (list_calls[n].raised \/ C20_LastPage(n))

\* pages of sizes 2, 2 and 1, each reporting the total 5
C20_Witness ==
    /\ iter_pc = "done"
    /\ iter_result = "exhausted"
    /\ Len(list_calls) = 3
    /\ \A k \in 1..3 : list_calls[k].total = 5
    /\ Len(list_calls[1].memories) = 2
    /\ Len(list_calls[2].memories) = 2
    /\ Len(list_calls[3].memories) = 1
    /\ list_calls[1].offset = 0 /\ list_calls[2].offset = 2 /\ list_calls[3].offset = 4
    /\ Len(yielded) = 5

\* ----------------------------------------------------------------- C21
\* C21: the pagination is lazy and forward-only: no list call is issued
\* before the consumer asks for the first item; a list call is issued only
\* while exactly one request of the consumer is unanswered, and the call
\* for page k+1 only after every item of the pages 1..k has been handed
\* over; once the consumer has stopped, the generator issues no further
\* list call; each fresh pagination starts again at offset 0.
C21_LazyForwardOnly ==
    /\ [](requested = 0 => list_calls = <<>>)
    /\ [](list_calls # <<>> => list_calls[1].offset = 0)
    /\ [](Len(yielded) <= requested /\ requested <= Len(yielded) + 1)
    /\ [][Len(list_calls') > Len(list_calls) =>
            /\ requested = Len(yielded) + 1
            /\ yielded = C20_Items(Len(list_calls))
            /\ list_calls'[Len(list_calls')].offset = Len(yielded)]_vars
    /\ [][iter_pc = "closed" =>
            \/ (list_calls' = list_calls /\ yielded' = yielded)
            \/ iteration' = iteration + 1]_vars
    /\ [][iteration' # iteration =>
            /\ iter_pc' = "created"
            /\ offset' = 0 /\ list_calls' = <<>> /\ yielded' = <<>>]_vars

\* the second pagination was stopped after the first of the two items of
\* its first page, of a total of 5: one list call, at offset 0
C21_Witness ==
    /\ iteration = 2
    /\ iter_pc = "closed"
    /\ requested = 1
    /\ Len(yielded) = 1
    /\ Len(list_calls) = 1
    /\ list_calls[1].offset = 0
    /\ Len(list_calls[1].memories) = 2
    /\ list_calls[1].total = 5

\* =========================================================================
\* BatchStore.execute (builders.py) and delete_batch (client.py): the bulk
\* operations that cut a list into chunks and make one call per chunk,
\* against a server that answers each call with any reply
\* =========================================================================

\* ---------------------------------------------------------------- bounds
\* longest list handed to a bulk operation
MaxPending == 150
\* most calls of execute on one builder
MaxExecutes == 2

\* ------------------------------------------------------ program constants
\* builders.py line 608: BatchStore.MAX_BATCH_SIZE
BatchStore_MAX_BATCH_SIZE == 100
\* client.py lines 485-486: range(0, len(memory_ids), 50)
DeleteChunkSize == 50

\* a slice that takes one item too many
ChunkInclusive(list, i, size) ==
    SubSeq(list, i + 1, IF i + size + 1 < Len(list) THEN i + size + 1 ELSE Len(list))

\* list[i : i + size]
Chunk(list, i, size) ==
    SubSeq(list, i + 1, IF i + size < Len(list) THEN i + size ELSE Len(list))

\* the on-error hooks registered on the client of the bulk operation
BulkHooks == {<<>>, <<"returns">>, <<"raises">>}

\* client.py lines 206-209: the exception that leaves _run_request when
\* self._http.request raised exc
RunRequestRaises(hooks, exc) ==
    IF \E h \in 1..Len(hooks) : hooks[h] = "raises"
    THEN Raised("HookError")
    ELSE exc

\* what self._http.request raises for a chunk
ChunkFaults == {Raised("ConnectError"), FromResponse(404, "error_object")}

\* what is raised after self._http.request returned: the ValidationError
\* of model_validate, the AttributeError of data.get on a reply that is
\* no object
ReplyFaults == {Raised("ValidationError"), Raised("AttributeError")}

\* the StoreBatchResult of the k-th call: the server names the memories it
\* stored, all of the chunk or one less, and reports its own counts
StoreReply(k, chunk, short, t, d) ==
    [ids |-> [j \in 1..(Len(chunk) - short) |-> <<k, j>>], tokens_used |-> t,
     deduplicated_count |-> d]

\* the "results" of the reply to a batch-delete: one per id, one less, or
\* none (a reply without "results", such as the {} of a 204)
DeleteReply(chunk, kept) ==
    LET m == CASE kept = "all" -> Len(chunk)
               [] kept = "all_but_one" -> Len(chunk) - 1
               [] kept = "none" -> 0
    IN  [j \in 1..m |-> [deleted |-> TRUE, id |-> chunk[j]]]

\* the items of the first n chunk calls that returned
RECURSIVE StoredBy(_, _)
StoredBy(calls, n) ==
    IF n = 0 THEN <<>>
    ELSE StoredBy(calls, n - 1)
         \o (IF calls[n].raised THEN <<>> ELSE calls[n].items)

\* a clear() that leaves the list as it is
MemoriesClearKeeps(list) == list

\* builders.py line 673: self._memories.clear()
MemoriesClear(list) == <<>>

ChunkCall(items, failed, exc, ids, tokens, deduped) ==
    [items |-> items, raised |-> failed, exc |-> exc, ids |-> ids,
     tokens_used |-> tokens, deduplicated_count |-> deduped]

BulkInit ==
    /\ bulk_op \in {"execute", "delete_batch"}
    /\ bulk_pc = "ready"
    /\ pending \in {[j \in 1..n |-> j] : n \in 0..MaxPending}
    /\ submitted = <<>>
    /\ chunk_start = 0
    /\ all_ids = <<>>
    /\ total_tokens = 0
    /\ total_deduped = 0
    /\ results = <<>>
    /\ chunk_calls = <<>>
    /\ bulk_result = [kind |-> "none"]
    /\ executed = <<>>
    /\ client = "MemoClaw"
    /\ on_error_hooks \in BulkHooks
    /\ call = [op |-> "none"] /\ facade_pc = "idle"
    /\ before_request_hooks = <<>> /\ after_response_hooks = <<>>
    /\ hook_index = 0 /\ run_body = {} /\ run_data = {}
    /\ run_exc = NoOutcome /\ result = NoOutcome /\ events = <<>>
    /\ TransportIdle
    /\ ErrorsIdle
    /\ PagerIdle
    /\ GraphIdle
    /\ PoolIdle
    /\ PairIdle
    /\ ConcIdle
    /\ BodyIdle
    /\ ConfigIdle
    /\ OpIdle

\* builders.py lines 658-663, client.py lines 482-484: an empty list is
\* answered at once, any other starts the loop
BulkStart ==
    /\ bulk_pc = "ready"
    /\ submitted' = pending
    /\ IF pending = <<>>
       THEN /\ bulk_pc' = "done"
            /\ bulk_result' =
                 [kind |-> "return",
                  value |-> IF bulk_op = "execute"
                            THEN [ids |-> <<>>, count |-> 0, stored |-> FALSE]
                            ELSE <<>>]
       ELSE /\ bulk_pc' = "loop"
            /\ UNCHANGED bulk_result
    /\ UNCHANGED <<bulk_op, pending, chunk_start, all_ids, total_tokens,
                   total_deduped, results, chunk_calls>>
    /\ UNCHANGED <<executed, other_than_bulk>>

\* builders.py lines 666-671: one round of the loop, store_batch returns
StoreChunkReturns(short, t, d) ==
    /\ bulk_op = "execute"
    /\ bulk_pc = "loop"
    /\ chunk_start < Len(pending)
    /\ LET chunk == Chunk(pending, chunk_start, BatchStore_MAX_BATCH_SIZE)
           reply == StoreReply(Len(chunk_calls) + 1, chunk, short, t, d)
       IN
       /\ ~BatchSizeError(chunk)
       /\ chunk_calls' = Append(chunk_calls,
             ChunkCall(chunk, FALSE, NoOutcome, reply.ids, reply.tokens_used,
                       reply.deduplicated_count))
       /\ all_ids' = all_ids \o reply.ids
       /\ total_tokens' = total_tokens + reply.tokens_used
       /\ total_deduped' = total_deduped + reply.deduplicated_count
    /\ chunk_start' = chunk_start + BatchStore_MAX_BATCH_SIZE
    /\ UNCHANGED <<bulk_op, bulk_pc, pending, submitted, results, bulk_result>>
    /\ UNCHANGED <<executed, other_than_bulk>>

\* builders.py lines 666-668: one round of the loop, store_batch raises:
\* its ValueError for the size of the chunk (client.py lines 265-270),
\* what leaves _run_request, or the error of model_validate
StoreChunkRaises(exc) ==
    /\ bulk_op = "execute"
    /\ bulk_pc = "loop"
    /\ chunk_start < Len(pending)
    /\ LET chunk == Chunk(pending, chunk_start, BatchStore_MAX_BATCH_SIZE) IN
       IF BatchSizeError(chunk)
       THEN /\ chunk_calls' = Append(chunk_calls,
                 ChunkCall(chunk, TRUE, NoOutcome, <<>>, 0, 0))
            /\ bulk_result' = [kind |-> "raise", exc |-> Raised("ValueError")]
       ELSE /\ chunk_calls' = Append(chunk_calls,
                 ChunkCall(chunk, TRUE,
                           IF exc \in ChunkFaults THEN exc ELSE NoOutcome,
                           <<>>, 0, 0))
            /\ bulk_result' =
                 [kind |-> "raise",
                  exc |-> IF exc \in ChunkFaults
                          THEN RunRequestRaises(on_error_hooks, exc)
                          ELSE exc]
    /\ bulk_pc' = "done"
    /\ UNCHANGED <<bulk_op, pending, submitted, chunk_start, all_ids,
                   total_tokens, total_deduped, results>>
    /\ UNCHANGED <<executed, other_than_bulk>>

\* client.py lines 485-491: one round of the loop, _run_request returns an
\* object and every item of its "results" is a DeleteResult
DeleteChunkReturns(kept) ==
    /\ bulk_op = "delete_batch"
    /\ bulk_pc = "loop"
    /\ chunk_start < Len(pending)
    /\ LET chunk == Chunk(pending, chunk_start, DeleteChunkSize)
           reply == DeleteReply(chunk, kept)
       IN
       /\ chunk_calls' = Append(chunk_calls,
             ChunkCall(chunk, FALSE, NoOutcome,
                       [j \in 1..Len(reply) |-> reply[j].id], 0, 0))
       /\ results' = results \o reply
    /\ chunk_start' = chunk_start + DeleteChunkSize
    /\ UNCHANGED <<bulk_op, bulk_pc, pending, submitted, all_ids, total_tokens,
                   total_deduped, bulk_result>>
    /\ UNCHANGED <<executed, other_than_bulk>>

\* client.py lines 485-491: one round of the loop, _run_request raises,
\* or data.get or model_validate does
DeleteChunkRaises(exc) ==
    /\ bulk_op = "delete_batch"
    /\ bulk_pc = "loop"
    /\ chunk_start < Len(pending)
    /\ LET chunk == Chunk(pending, chunk_start, DeleteChunkSize) IN
       chunk_calls' = Append(chunk_calls,
             ChunkCall(chunk, TRUE,
                       IF exc \in ChunkFaults THEN exc ELSE NoOutcome,
                       <<>>, 0, 0))
    /\ bulk_result' =
         [kind |-> "raise",
          exc |-> IF exc \in ChunkFaults
                  THEN RunRequestRaises(on_error_hooks, exc)
                  ELSE exc]
    /\ bulk_pc' = "done"
    /\ UNCHANGED <<bulk_op, pending, submitted, chunk_start, all_ids,
                   total_tokens, total_deduped, results>>
    /\ UNCHANGED <<executed, other_than_bulk>>

\* builders.py lines 673-681, client.py line 492: the loop is over
BulkReturn ==
    /\ bulk_pc = "loop"
    /\ chunk_start >= Len(pending)
    /\ IF bulk_op = "execute"
       THEN /\ pending' = MemoriesClear(pending)
            /\ bulk_result' =
                 [kind |-> "return",
                  value |-> [ids |-> all_ids, count |-> Len(all_ids),
                             stored |-> TRUE, tokens_used |-> total_tokens,
                             deduplicated_count |-> total_deduped]]
       ELSE /\ UNCHANGED pending
            /\ bulk_result' = [kind |-> "return", value |-> results]
    /\ bulk_pc' = "done"
    /\ UNCHANGED <<bulk_op, submitted, chunk_start, all_ids, total_tokens,
                   total_deduped, results, chunk_calls>>
    /\ UNCHANGED <<executed, other_than_bulk>>

\* execute is called once more on the builder, after a call that
\* returned or raised
ExecuteAgain ==
    /\ bulk_op = "execute"
    /\ bulk_pc = "done"
    /\ Len(executed) < MaxExecutes - 1
    /\ executed' = Append(executed,
          [submitted |-> submitted,
           raised |-> bulk_result.kind = "raise",
           stored |-> StoredBy(chunk_calls, Len(chunk_calls))])
    /\ bulk_pc' = "ready"
    /\ submitted' = <<>>
    /\ chunk_start' = 0
    /\ all_ids' = <<>>
    /\ total_tokens' = 0
    /\ total_deduped' = 0
    /\ chunk_calls' = <<>>
    /\ bulk_result' = [kind |-> "none"]
    /\ UNCHANGED <<bulk_op, pending, results>>
    /\ UNCHANGED other_than_bulk

BulkNext ==
    \/ BulkStart
    \/ \E short \in {0, 1}, t \in {0, 7}, d \in {0, 1} :
          StoreChunkReturns(short, t, d)
    \/ \E exc \in ChunkFaults \cup ReplyFaults : StoreChunkRaises(exc)
    \/ \E kept \in {"all", "all_but_one", "none"} : DeleteChunkReturns(kept)
    \/ \E exc \in ChunkFaults \cup ReplyFaults : DeleteChunkRaises(exc)
    \/ BulkReturn
    \/ ExecuteAgain

BulkSpec == BulkInit /\ [][BulkNext]_vars

\* ----------------------------------------------------------------- C22
\* the smallest number of chunks of at most k items that hold n items
C22_Ceil(n, k) == (n + k - 1) \div k

\* the items of the first k calls, call after call
RECURSIVE C22_Items(_)
C22_Items(k) ==
    IF k = 0 THEN <<>> ELSE C22_Items(k - 1) \o chunk_calls[k].items

\* the ids returned by the first k calls, call after call
RECURSIVE C22_Ids(_)
C22_Ids(k) ==
    IF k = 0 THEN <<>> ELSE C22_Ids(k - 1) \o chunk_calls[k].ids

RECURSIVE C22_Tokens(_)
C22_Tokens(k) ==
    IF k = 0 THEN 0 ELSE C22_Tokens(k - 1) + chunk_calls[k].tokens_used

RECURSIVE C22_Deduped(_)
C22_Deduped(k) ==
    IF k = 0 THEN 0 ELSE C22_Deduped(k - 1) + chunk_calls[k].deduplicated_count

\* C22: BatchStore.execute with n > 0 pending items calls store_batch with
\* chunks of 1 to 100 items that are, in order, the consecutive pieces of
\* the pending list; when it returns it has made exactly ceil(n/100) calls
\* whose chunks concatenate to the pending list, and the combined result
\* has the ids of the calls concatenated in order, their number as count,
\* and the sums of tokens_used and deduplicated_count (150 items: calls of
\* sizes 100 and 50).
C22_BulkStoreChunks ==
    bulk_op = "execute" =>
       LET n == Len(submitted)
           calls == Len(chunk_calls)
       IN
       /\ \A k \in 1..calls :
             /\ Len(chunk_calls[k].items) \in 1..100
             /\ C22_Items(k) = SubSeq(submitted, 1, Len(C22_Items(k)))
             /\ k < calls => Len(chunk_calls[k].items) = 100
       /\ calls <= C22_Ceil(n, 100)
       /\ (bulk_pc = "done" /\ bulk_result.kind = "return" /\ n > 0) =>
             /\ calls = C22_Ceil(n, 100)
             /\ C22_Items(calls) = submitted
             /\ bulk_result.value.ids = C22_Ids(calls)
             /\ bulk_result.value.count = Len(C22_Ids(calls))
             /\ bulk_result.value.tokens_used = C22_Tokens(calls)
             /\ bulk_result.value.deduplicated_count = C22_Deduped(calls)

\* 150 pending items: two calls, of 100 and of 50 items, a count of 150
C22_Witness ==
    /\ bulk_op = "execute"
    /\ bulk_pc = "done"
    /\ bulk_result.kind = "return"
    /\ Len(submitted) = 150
    /\ Len(chunk_calls) = 2
    /\ Len(chunk_calls[1].items) = 100
    /\ Len(chunk_calls[2].items) = 50
    /\ bulk_result.value.count = 150
    /\ bulk_result.value.tokens_used = 14

\* ----------------------------------------------------------------- C23
\* the last call made is one in which self._http.request raised
C23_LastCallFailed ==
    /\ chunk_calls # <<>>
    /\ chunk_calls[Len(chunk_calls)].exc # NoOutcome

\* no call follows one that raised, and the calls made so far stay made
C23_StopsAtFailure ==
    /\ \A k \in 1..(Len(chunk_calls) - 1) : ~chunk_calls[k].raised
    /\ chunk_calls[Len(chunk_calls)].raised =>
          /\ bulk_pc = "done"
          /\ bulk_result.kind = "raise"

\* C23: in BatchStore.execute and delete_batch, when the network call for
\* a chunk raises, no call is made for any later chunk, the raised error
\* reaches the caller unchanged and no combined result is returned; the
\* calls for the earlier chunks have been made.
C23_ChunkErrorPropagates ==
    C23_LastCallFailed =>
       /\ C23_StopsAtFailure
       /\ bulk_result.exc = chunk_calls[Len(chunk_calls)].exc

\* the same when no on-error hook of the client raises
C23_ChunkErrorPropagatesPastQuietHooks ==
    ( /\ C23_LastCallFailed
      /\ \A h \in 1..Len(on_error_hooks) : on_error_hooks[h] # "raises" )
    => /\ C23_StopsAtFailure
       /\ bulk_result.exc = chunk_calls[Len(chunk_calls)].exc

\* ----------------------------------------------------------------- C24
\* the calls of delete_batch are the consecutive pieces of at most 50 ids
\* of the list, none for the empty list, which returns the empty list
C24_ChunksOfFifty ==
    bulk_op = "delete_batch" =>
       LET n == Len(submitted)
           calls == Len(chunk_calls)
       IN
       /\ \A k \in 1..calls :
             /\ Len(chunk_calls[k].items) \in 1..50
             /\ C22_Items(k) = SubSeq(submitted, 1, Len(C22_Items(k)))
             /\ k < calls => Len(chunk_calls[k].items) = 50
       /\ (bulk_pc = "done" /\ bulk_result.kind = "return") =>
             /\ calls = C22_Ceil(n, 50)
             /\ C22_Items(calls) = submitted
             /\ n = 0 => bulk_result.value = <<>>

\* C24: delete_batch accepts a list of any length n, makes ceil(n/50)
\* batch-delete calls of at most 50 ids each, in input order (none and an
\* empty result when n = 0), and returns exactly one DeleteResult per
\* supplied id.
C24_OneResultPerId ==
    /\ C24_ChunksOfFifty
    /\ ( /\ bulk_op = "delete_batch"
         /\ bulk_pc = "done"
         /\ bulk_result.kind = "return" )
       => /\ Len(bulk_result.value) = Len(submitted)
          /\ \A j \in 1..Len(submitted) : bulk_result.value[j].id = submitted[j]

\* =========================================================================
\* get_memory_graph (client.py): the breadth-first traversal of the
\* relation graph, against a server that answers each list_relations call
\* with any list of relations
\* =========================================================================

\* ---------------------------------------------------------------- bounds
\* largest depth asked for
MaxDepth == 3
\* longest list of relations of one memory
MaxRelations == 2

\* the memory ids of the server
MemoryIds == {"A", "B", "C"}

\* what list_relations may return: the relations of a memory, each one
\* written as its rel.memory.id, in any order and with repetitions
RelationLists ==
    UNION {[1..n -> MemoryIds] : n \in 0..MaxRelations}

\* a loop that runs one round more than range(depth)
MoreRoundsInclusive(rounds, d) == rounds <= d

\* line 856: for _ in range(depth) has a further round
MoreRounds(rounds, d) == rounds < d

\* a traversal that keeps no track of what it has seen
AlreadyVisitedNever(seen, mid) == FALSE

\* lines 859 and 865: mid in visited
AlreadyVisited(seen, mid) == mid \in DOMAIN seen

\* lines 863-866: the neighbours of rels that are not in visited, appended
\* in the order of rels
RECURSIVE NewNeighbours(_, _)
NewNeighbours(seen, rels) ==
    IF rels = <<>> THEN <<>>
    ELSE (IF AlreadyVisited(seen, Head(rels)) THEN <<>> ELSE <<Head(rels)>>)
         \o NewNeighbours(seen, Tail(rels))

GraphInit ==
    /\ graph_pc = "level"
    /\ memory_id = "A"
    /\ depth \in 0..MaxDepth
    /\ level = 0
    /\ visited = EmptyDict
    /\ frontier = <<memory_id>>
    /\ next_frontier = <<>>
    /\ frontier_index = 0
    /\ relation_calls = <<>>
    /\ graph_result = [kind |-> "none"]
    /\ TransportIdle
    /\ ErrorsIdle
    /\ FacadeIdle
    /\ PagerIdle
    /\ BulkIdle
    /\ PoolIdle
    /\ PairIdle
    /\ ConcIdle
    /\ BodyIdle
    /\ ConfigIdle
    /\ OpIdle

\* lines 856-857: a further round of the outer loop begins
BeginLevel ==
    /\ graph_pc = "level"
    /\ MoreRounds(level, depth)
    /\ level' = level + 1
    /\ next_frontier' = <<>>
    /\ frontier_index' = 1
    /\ graph_pc' = "node"
    /\ UNCHANGED <<memory_id, depth, visited, frontier, relation_calls,
                   graph_result>>
    /\ UNCHANGED other_than_graph

\* lines 858-860: the next id of the frontier is in visited
SkipVisited ==
    /\ graph_pc = "node"
    /\ frontier_index <= Len(frontier)
    /\ AlreadyVisited(visited, frontier[frontier_index])
    /\ frontier_index' = frontier_index + 1
    /\ UNCHANGED <<graph_pc, memory_id, depth, level, visited, frontier,
                   next_frontier, relation_calls, graph_result>>
    /\ UNCHANGED other_than_graph

\* lines 858-866: the next id of the frontier is not in visited and
\* list_relations returns rels
ListRelations(rels) ==
    /\ graph_pc = "node"
    /\ frontier_index <= Len(frontier)
    /\ ~AlreadyVisited(visited, frontier[frontier_index])
    /\ LET mid == frontier[frontier_index] IN
       /\ relation_calls' = Append(relation_calls,
                                   [mid |-> mid, raised |-> FALSE, rels |-> rels])
       /\ visited' = Update(visited, mid :> rels)
       /\ next_frontier' = next_frontier \o NewNeighbours(visited', rels)
    /\ frontier_index' = frontier_index + 1
    /\ UNCHANGED <<graph_pc, memory_id, depth, level, frontier, graph_result>>
    /\ UNCHANGED other_than_graph

\* line 861: list_relations raises
ListRelationsRaises ==
    /\ graph_pc = "node"
    /\ frontier_index <= Len(frontier)
    /\ ~AlreadyVisited(visited, frontier[frontier_index])
    /\ relation_calls' = Append(relation_calls,
                                [mid |-> frontier[frontier_index],
                                 raised |-> TRUE, rels |-> <<>>])
    /\ graph_result' = [kind |-> "raise"]
    /\ graph_pc' = "done"
    /\ UNCHANGED <<memory_id, depth, level, visited, frontier, next_frontier,
                   frontier_index>>
    /\ UNCHANGED other_than_graph

\* lines 867-869: the frontier is used up; the next one takes its place,
\* and the outer loop is left when it is empty
EndLevel ==
    /\ graph_pc = "node"
    /\ frontier_index > Len(frontier)
    /\ frontier' = next_frontier
    /\ graph_pc' = IF next_frontier = <<>> THEN "return" ELSE "level"
    /\ UNCHANGED <<memory_id, depth, level, visited, next_frontier,
                   frontier_index, relation_calls, graph_result>>
    /\ UNCHANGED other_than_graph

\* line 871: return visited, after the break or after the last round
ReturnVisited ==
    /\ \/ graph_pc = "return"
       \/ graph_pc = "level" /\ ~MoreRounds(level, depth)
    /\ graph_result' = [kind |-> "return", value |-> visited]
    /\ graph_pc' = "done"
    /\ UNCHANGED <<memory_id, depth, level, visited, frontier, next_frontier,
                   frontier_index, relation_calls>>
    /\ UNCHANGED other_than_graph

GraphNext ==
    \/ BeginLevel
    \/ SkipVisited
    \/ \E rels \in RelationLists : ListRelations(rels)
    \/ ListRelationsRaises
    \/ EndLevel
    \/ ReturnVisited

GraphSpec == GraphInit /\ [][GraphNext]_vars

\* the calls follow one another without outside help: every step of the
\* traversal that can be taken is taken in the end
GraphFairSpec == GraphSpec /\ WF_vars(GraphNext)

\* ----------------------------------------------------------------- C25
\* the ids whose relations were asked for, in the order of the calls
C25_Queried == [i \in 1..Len(relation_calls) |-> relation_calls[i].mid]

\* C25: for every relation graph (cycles, self-loops, memories reachable
\* along several paths, relations listed twice) and every depth >= 0,
\* get_memory_graph terminates and asks for the relations of each memory
\* id at most once; on the cycle A->B, B->C, C->A with depth 3 it asks for
\* A, B and C, each exactly once.
C25_TerminatesAndQueriesOnce ==
    /\ [](\A i, j \in 1..Len(relation_calls) :
             i # j => relation_calls[i].mid # relation_calls[j].mid)
    /\ [](level <= depth)
    /\ []( ( /\ graph_pc = "done"
             /\ depth = 3
             /\ Len(relation_calls) >= 3
             /\ relation_calls[1].rels = <<"B">>
             /\ relation_calls[2].rels = <<"C">>
             /\ relation_calls[3].rels = <<"A">> )
           => /\ C25_Queried = <<"A", "B", "C">>
              /\ graph_result.kind = "return"
              /\ DOMAIN graph_result.value = {"A", "B", "C"} )
    /\ <>(graph_pc = "done")

\* the cycle A->B, B->C, C->A walked with depth 3
C25_Witness ==
    /\ graph_pc = "done"
    /\ depth = 3
    /\ graph_result.kind = "return"
    /\ C25_Queried = <<"A", "B", "C">>
    /\ relation_calls[1].rels = <<"B">>
    /\ relation_calls[2].rels = <<"C">>
    /\ relation_calls[3].rels = <<"A">>

\* ----------------------------------------------------------------- C26
\* the relations the server returned for mid
C26_RelsOf(mid) ==
    relation_calls[CHOOSE i \in 1..Len(relation_calls) :
                      relation_calls[i].mid = mid /\ ~relation_calls[i].raised].rels

\* the ids the server has returned relations for
C26_Answered ==
    {relation_calls[i].mid : i \in {j \in 1..Len(relation_calls) :
                                       ~relation_calls[j].raised}}

\* the ids at breadth-first distance at most k from the start, following
\* the neighbour ids of the relations the server returned
RECURSIVE C26_Within(_)
C26_Within(k) ==
    IF k = 0 THEN {memory_id}
    ELSE LET prev == C26_Within(k - 1) IN
         prev \cup {n \in MemoryIds :
                      \E v \in prev \cap C26_Answered :
                         \E j \in 1..Len(C26_RelsOf(v)) : C26_RelsOf(v)[j] = n}

\* C26: get_memory_graph(start, depth = d) returns a map whose keys are
\* exactly the ids at breadth-first distance less than d from start, each
\* mapped to the relations the server returned for it: depth 1 gives only
\* the relations of start, and the traversal returns before round d only
\* when a round found no new neighbour.
C26_KeysAreBreadthFirst ==
    (graph_pc = "done" /\ graph_result.kind = "return") =>
       LET map == graph_result.value IN
       /\ DOMAIN map = IF depth = 0 THEN {} ELSE C26_Within(depth - 1)
       /\ \A mid \in DOMAIN map : map[mid] = C26_RelsOf(mid)
       /\ DOMAIN map = C26_Answered
       /\ depth = 1 => DOMAIN map = {memory_id}
       /\ level < depth => frontier = <<>>

\* depth 2 from A with the relations A-B and B-C: the map holds A and B,
\* and not C, which is two hops away
C26_Witness ==
    /\ graph_pc = "done"
    /\ graph_result.kind = "return"
    /\ depth = 2
    /\ DOMAIN graph_result.value = {"A", "B"}
    /\ graph_result.value["A"] = <<"B", "B">>
    /\ graph_result.value["B"] = <<"A", "C">>

\* =========================================================================
\* close, __enter__ / __exit__ and __aenter__ / __aexit__ (client.py,
\* _client.py): the lifetime of the connection pool of one client
\* =========================================================================

\* ---------------------------------------------------------------- bounds
\* largest number of explicit calls of close()
MaxCloseCalls == 3
\* largest number of requests made through the pool
MaxPoolRequests == 3

\* an __exit__ that leaves the pool as it is
ExitClosesNever(how) == FALSE

\* client.py lines 224-225 and 987-988: __exit__(*args) and
\* __aexit__(*args) call close() whatever the arguments, that is, whether
\* the block was left normally or by an exception
ExitCloses(how) == how \in {"left_normally", "left_by_exception"}

\* _client.py lines 94 and 185: httpx.Client(...) / httpx.AsyncClient(...)
\* create the pool, open, when the client is constructed
PoolInit ==
    /\ pool_client \in {"MemoClaw", "AsyncMemoClaw"}
    /\ pool_state = "open"
    /\ scope = "outside"
    /\ close_calls = 0
    /\ releases = 0
    /\ pool_requests = <<>>
    /\ TransportIdle
    /\ ErrorsIdle
    /\ FacadeIdle
    /\ PagerIdle
    /\ BulkIdle
    /\ GraphIdle
    /\ PairIdle
    /\ ConcIdle
    /\ BodyIdle
    /\ ConfigIdle
    /\ OpIdle

\* client.py line 219 -> _client.py line 153 (async: 982 -> 244):
\* self._http.close() hands the call to httpx, whose close() / aclose()
\* releases the pool of a client that is not closed and does nothing to a
\* closed one
HttpClose ==
    /\ pool_state' = "closed"
    /\ releases' = IF pool_state = "closed" THEN releases ELSE releases + 1

\* client.py lines 218-219 and 981-982: close()
Close ==
    /\ close_calls < MaxCloseCalls
    /\ close_calls' = close_calls + 1
    /\ HttpClose
    /\ UNCHANGED <<pool_client, scope, pool_requests>>
    /\ UNCHANGED other_than_pool

\* client.py lines 221-222 and 984-985: __enter__ returns self
Enter ==
    /\ scope = "outside"
    /\ scope' = "inside"
    /\ UNCHANGED <<pool_client, pool_state, close_calls, releases,
                   pool_requests>>
    /\ UNCHANGED other_than_pool

\* client.py lines 224-225 and 987-988: __exit__, the block being left
\* normally or by an exception
Exit(how) ==
    /\ scope = "inside"
    /\ scope' = how
    /\ IF ExitCloses(how)
       THEN HttpClose
       ELSE UNCHANGED <<pool_state, releases>>
    /\ UNCHANGED <<pool_client, close_calls, pool_requests>>
    /\ UNCHANGED other_than_pool

\* _client.py lines 119-121 and 210-212: a request is handed to
\* self._http.request, which serves it from the pool while the client is
\* open and raises RuntimeError once it is closed
PoolRequest ==
    /\ Len(pool_requests) < MaxPoolRequests
    /\ pool_requests' = Append(pool_requests,
          [released |-> releases,
           served |-> pool_state = "open"])
    /\ UNCHANGED <<pool_client, pool_state, scope, close_calls, releases>>
    /\ UNCHANGED other_than_pool

PoolNext ==
    \/ Close
    \/ Enter
    \/ \E how \in {"left_normally", "left_by_exception"} : Exit(how)
    \/ PoolRequest

PoolSpec == PoolInit /\ [][PoolNext]_vars

\* ----------------------------------------------------------------- C27
\* C27: the pool exists from construction and serves every request made
\* before its release; leaving a with / async with block, normally or by
\* an exception, releases it; it is released at most once, and close()
\* after the release changes nothing.
C27_ReleasedOnce ==
    /\ [](releases <= 1)
    /\ [](pool_state = "open" <=> releases = 0)
    /\ [](\A i \in 1..Len(pool_requests) :
             pool_requests[i].served <=> pool_requests[i].released = 0)
    /\ [](scope \in {"left_normally", "left_by_exception"} =>
             pool_state = "closed" /\ releases = 1)
    /\ []((close_calls > 0) => pool_state = "closed" /\ releases = 1)
    /\ [][pool_state = "closed" =>
            pool_state' = "closed" /\ releases' = releases]_vars

\* a request was served inside the block, the block was left by an
\* exception, and close() was called twice after that
C27_Witness ==
    /\ scope = "left_by_exception"
    /\ close_calls = 2
    /\ releases = 1
    /\ Len(pool_requests) = 2
    /\ pool_requests[1].served
    /\ ~pool_requests[2].served

\* =========================================================================
\* _SyncHTTPClient.request and _AsyncHTTPClient.request (_client.py), each
\* written as a function from the state of one logical request and the
\* next network outcome to the next state, and run side by side on the
\* same outcomes
\* =========================================================================

\* ---------------------------------------------------------------- bounds
\* largest max_retries of the two clients run side by side
MaxPairRetries == 2

\* ---- network outcomes
\* a send that raises
SendRaises(exc) ==
    [kind |-> "fault", exc |-> exc, status_code |-> 0, retry_after |-> None,
     body |-> "unread", x402 |-> "not_installed"]

\* a send that is answered; x402 is what the payment resolver does with
\* the answer when it is asked
SendAnswered(status, retry_after, body, x402) ==
    [kind |-> "response", exc |-> "None", status_code |-> status,
     retry_after |-> retry_after, body |-> body, x402 |-> x402]

\* the state of a request when request() is entered (lines 104-105 and
\* 197-198)
RequestStart ==
    [pc |-> "loop", attempt |-> 0, clock |-> 0, headers |-> EmptyDict,
     response |-> Unbound, last_exc |-> "None", delay |-> 0,
     outcome |-> NoOutcome, sent |-> <<>>, slept |-> <<>>,
     resolver_calls |-> 0]

\* ---- _SyncHTTPClient.request
\* lines 107-113: the head of the loop: the next send, or the end of the
\* loop (lines 147-150)
SyncLoop(r, m) ==
    IF r.attempt \in 0..m
    THEN LET h == "x-wallet-auth" :> GenerateWalletAuth(r.clock) IN
         [r EXCEPT !.headers = h,
                   !.sent = Append(r.sent, [attempt |-> r.attempt,
                                            headers |-> h, at |-> r.clock]),
                   !.pc = "sending"]
    ELSE [r EXCEPT !.pc = "done",
                   !.outcome =
                      IF r.last_exc # "None" THEN Raised(r.last_exc)
                      ELSE IF r.response = Unbound
                           THEN Raised("UnboundLocalError")
                           ELSE IF RaiseForStatus(r.response) # NoOutcome
                                THEN RaiseForStatus(r.response)
                                ELSE Returned("None")]

\* lines 115-120: the send inside the try block raises
SyncFault(r, m, ev) ==
    IF ev.exc \in RetriedFaults /\ r.attempt < m
    THEN [r EXCEPT !.last_exc = ev.exc, !.delay = Backoff(r.attempt),
                   !.pc = "sleeping"]
    ELSE [r EXCEPT !.last_exc = IF ev.exc \in RetriedFaults THEN ev.exc ELSE @,
                   !.outcome = Raised(ev.exc), !.pc = "done"]

\* lines 131-145: the response that is left after the payment step
SyncAfterResponse(r, m, ev) ==
    IF ev.status_code \in RETRYABLE_STATUS_CODES /\ r.attempt < m
    THEN IF Truthy(ev.retry_after) /\ IsDigit(TheValue(ev.retry_after))
         THEN IF FloatRaises(TheValue(ev.retry_after))
              THEN [r EXCEPT !.outcome = Raised("ValueError"), !.pc = "done"]
              ELSE [r EXCEPT !.delay = Float(TheValue(ev.retry_after)),
                             !.pc = "sleeping"]
         ELSE [r EXCEPT !.delay = Backoff(r.attempt), !.pc = "sleeping"]
    ELSE [r EXCEPT !.outcome = Finish(Response(ev.status_code, Unread, ev.body)),
                   !.pc = "done"]

\* lines 122-129: a 402 asks the payment resolver, and its headers, if
\* any, go out with a second send
SyncAnswer(r, m, ev) ==
    IF ev.status_code = 402
    THEN LET found == TryX402Payment(ev.x402)
             asked == [r EXCEPT !.resolver_calls = @ + 1]
         IN  IF Truthy(found)
             THEN LET h == Update(r.headers, TheValue(found)) IN
                  [asked EXCEPT !.headers = h,
                                !.sent = Append(r.sent, [attempt |-> r.attempt,
                                                         headers |-> h,
                                                         at |-> r.clock]),
                                !.pc = "resending"]
             ELSE SyncAfterResponse(asked, m, ev)
    ELSE SyncAfterResponse(r, m, ev)

\* lines 118-119 and 138-139: time.sleep(delay) is over; continue
SyncSleep(r) ==
    [r EXCEPT !.clock = @ + r.delay,
              !.slept = Append(r.slept, [attempt |-> r.attempt, delay |-> r.delay]),
              !.attempt = @ + 1,
              !.pc = "loop"]

\* lines 96-150: one step of request()
SyncRequestStep(r, m, ev) ==
    CASE r.pc = "loop" -> SyncLoop(r, m)
      [] r.pc = "sleeping" -> SyncSleep(r)
      [] r.pc = "sending" /\ ev.kind = "fault" -> SyncFault(r, m, ev)
      [] r.pc = "sending" /\ ev.kind = "response" -> SyncAnswer(r, m, ev)
      [] r.pc = "resending" /\ ev.kind = "fault" ->
            [r EXCEPT !.outcome = Raised(ev.exc), !.pc = "done"]
      [] r.pc = "resending" /\ ev.kind = "response" ->
            SyncAfterResponse(r, m, ev)
      [] OTHER -> r

\* ---- _AsyncHTTPClient.request
\* a loop head that writes the credential into the headers of the attempt
\* before instead of building new ones
AsyncLoopKeepsHeaders(r, m) ==
    IF r.attempt \in 0..m
    THEN LET h == Update(r.headers, "x-wallet-auth" :> GenerateWalletAuth(r.clock)) IN
         [r EXCEPT !.headers = h,
                   !.sent = Append(r.sent, [attempt |-> r.attempt,
                                            headers |-> h, at |-> r.clock]),
                   !.pc = "sending"]
    ELSE [r EXCEPT !.pc = "done",
                   !.outcome =
                      IF r.last_exc # "None" THEN Raised(r.last_exc)
                      ELSE IF r.response = Unbound
                           THEN Raised("UnboundLocalError")
                           ELSE IF RaiseForStatus(r.response) # NoOutcome
                                THEN RaiseForStatus(r.response)
                                ELSE Returned("None")]

\* lines 200-206: the head of the loop: the next send, or the end of the
\* loop (lines 239-241)
AsyncLoop(r, m) ==
    IF r.attempt \in 0..m
    THEN LET h == "x-wallet-auth" :> GenerateWalletAuth(r.clock) IN
         [r EXCEPT !.headers = h,
                   !.sent = Append(r.sent, [attempt |-> r.attempt,
                                            headers |-> h, at |-> r.clock]),
                   !.pc = "sending"]
    ELSE [r EXCEPT !.pc = "done",
                   !.outcome =
                      IF r.last_exc # "None" THEN Raised(r.last_exc)
                      ELSE IF r.response = Unbound
                           THEN Raised("UnboundLocalError")
                           ELSE IF RaiseForStatus(r.response) # NoOutcome
                                THEN RaiseForStatus(r.response)
                                ELSE Returned("None")]

\* an except clause that re-raises at once
AsyncFaultNeverRetried(r, m, ev) ==
    [r EXCEPT !.outcome = Raised(ev.exc), !.pc = "done"]

\* lines 207-212: the awaited send inside the try block raises
AsyncFault(r, m, ev) ==
    IF ev.exc \in RetriedFaults /\ r.attempt < m
    THEN [r EXCEPT !.last_exc = ev.exc, !.delay = Backoff(r.attempt),
                   !.pc = "sleeping"]
    ELSE [r EXCEPT !.last_exc = IF ev.exc \in RetriedFaults THEN ev.exc ELSE @,
                   !.outcome = Raised(ev.exc), !.pc = "done"]

\* lines 223-237: the response that is left after the payment step
AsyncAfterResponse(r, m, ev) ==
    IF ev.status_code \in RETRYABLE_STATUS_CODES /\ r.attempt < m
    THEN IF Truthy(ev.retry_after) /\ IsDigit(TheValue(ev.retry_after))
         THEN IF FloatRaises(TheValue(ev.retry_after))
              THEN [r EXCEPT !.outcome = Raised("ValueError"), !.pc = "done"]
              ELSE [r EXCEPT !.delay = Float(TheValue(ev.retry_after)),
                             !.pc = "sleeping"]
         ELSE [r EXCEPT !.delay = Backoff(r.attempt), !.pc = "sleeping"]
    ELSE [r EXCEPT !.outcome = Finish(Response(ev.status_code, Unread, ev.body)),
                   !.pc = "done"]

\* lines 214-221: a 402 asks the payment resolver, and its headers, if
\* any, go out with a second awaited send
AsyncAnswer(r, m, ev) ==
    IF ev.status_code = 402
    THEN LET found == TryX402Payment(ev.x402)
             asked == [r EXCEPT !.resolver_calls = @ + 1]
         IN  IF Truthy(found)
             THEN LET h == Update(r.headers, TheValue(found)) IN
                  [asked EXCEPT !.headers = h,
                                !.sent = Append(r.sent, [attempt |-> r.attempt,
                                                         headers |-> h,
                                                         at |-> r.clock]),
                                !.pc = "resending"]
             ELSE AsyncAfterResponse(asked, m, ev)
    ELSE AsyncAfterResponse(r, m, ev)

\* lines 210-211 and 230-231: await asyncio.sleep(delay) is over; continue
AsyncSleep(r) ==
    [r EXCEPT !.clock = @ + r.delay,
              !.slept = Append(r.slept, [attempt |-> r.attempt, delay |-> r.delay]),
              !.attempt = @ + 1,
              !.pc = "loop"]

\* lines 187-241: one step of request()
AsyncRequestStep(r, m, ev) ==
    CASE r.pc = "loop" -> AsyncLoop(r, m)
      [] r.pc = "sleeping" -> AsyncSleep(r)
      [] r.pc = "sending" /\ ev.kind = "fault" -> AsyncFault(r, m, ev)
      [] r.pc = "sending" /\ ev.kind = "response" -> AsyncAnswer(r, m, ev)
      [] r.pc = "resending" /\ ev.kind = "fault" ->
            [r EXCEPT !.outcome = Raised(ev.exc), !.pc = "done"]
      [] r.pc = "resending" /\ ev.kind = "response" ->
            AsyncAfterResponse(r, m, ev)
      [] OTHER -> r

\* ---- the two clients side by side
PairInit ==
    /\ pair_max_retries \in (-1)..MaxPairRetries
    /\ sync_run = RequestStart
    /\ async_run = RequestStart
    /\ TransportIdle
    /\ ErrorsIdle
    /\ FacadeIdle
    /\ PagerIdle
    /\ BulkIdle
    /\ GraphIdle
    /\ PoolIdle
    /\ ConcIdle
    /\ BodyIdle
    /\ ConfigIdle
    /\ OpIdle

\* both requests take the step that `ev` allows
PairStep(ev) ==
    /\ sync_run' = SyncRequestStep(sync_run, pair_max_retries, ev)
    /\ async_run' = AsyncRequestStep(async_run, pair_max_retries, ev)
    /\ UNCHANGED pair_max_retries
    /\ UNCHANGED other_than_pair

\* a step that waits for nothing from the network: the head of the loop,
\* the end of a sleep
PairProceed ==
    /\ sync_run.pc \in {"loop", "sleeping"}
    /\ PairStep(SendRaises("None"))

\* the send in flight raises, for both
PairSendRaises(exc) ==
    /\ sync_run.pc \in {"sending", "resending"}
    /\ PairStep(SendRaises(exc))

\* the send in flight is answered, for both
PairSendAnswered(status, retry_after, body, x402) ==
    /\ sync_run.pc \in {"sending", "resending"}
    /\ PairStep(SendAnswered(status, retry_after, body, x402))

PairNext ==
    \/ PairProceed
    \/ \E exc \in Faults : PairSendRaises(exc)
    \/ \E status \in Statuses, retry_after \in RetryAfterValues, body \in Bodies :
          \E x402 \in IF status = 402 THEN X402Behaviours ELSE {"not_installed"} :
             PairSendAnswered(status, retry_after, body, x402)

PairSpec == PairInit /\ [][PairNext]_vars

\* ----------------------------------------------------------------- C28
\* C28: the sync and the async transport implement the same state
\* machine: for every max_retries and every sequence of network outcomes
\* (responses with their statuses and retry-after headers, faults,
\* payment-resolver results) both issue the same sends and the same sleeps
\* with the same delays, and end with the same result or the same error.
C28_SameStateMachine ==
    /\ async_run.sent = sync_run.sent
    /\ async_run.slept = sync_run.slept
    /\ async_run.outcome = sync_run.outcome
    /\ async_run.pc = sync_run.pc
    /\ async_run.attempt = sync_run.attempt
    /\ async_run.resolver_calls = sync_run.resolver_calls

\* both clients, with max_retries = 2: a fault, a 503 with retry-after 2,
\* then a 402 that is paid and answered with 200
C28_Witness ==
    /\ pair_max_retries = 2
    /\ async_run.pc = "done"
    /\ async_run.outcome = Returned("object")
    /\ Len(async_run.sent) = 4
    /\ async_run.resolver_calls = 1
    /\ Len(async_run.slept) = 2
    /\ async_run.slept[1].delay = 500
    /\ async_run.slept[2].delay = 2000
    /\ sync_run = async_run

\* =========================================================================
\* several logical requests made concurrently through one AsyncMemoClaw
\* (client.py _run_request, _client.py _AsyncHTTPClient.request): one task
\* per request, a scheduler that runs them in any order and may cancel a
\* task that is suspended
\* =========================================================================

\* ---------------------------------------------------------------- bounds
\* number of concurrent tasks
MaxTasks == 2
\* largest max_retries of the shared client
MaxTaskRetries == 1

Tasks == 1..MaxTasks

\* what the network does to a send of one of the tasks
TaskOutcomes ==
    {SendRaises("ConnectError"),
     SendAnswered(200, None, "object", "not_installed"),
     SendAnswered(503, None, "error_object", "not_installed"),
     SendAnswered(402, None, "error_object", "returns_headers")}

\* the scheduler cancels the task: CancelledError is raised at the await
\* the task is suspended in
Cancellation ==
    [kind |-> "cancel", exc |-> "CancelledError", status_code |-> 0,
     retry_after |-> None, body |-> "unread", x402 |-> "not_installed"]

\* the on-error hooks registered on the client
TaskHooks == {<<>>, <<"raises">>}

\* _client.py lines 203-212, 219 and 230: CancelledError raised at the
\* awaited send of the try block meets the except clause of line 207 like
\* any exception of that send; at the second send and at the sleeps
\* nothing stands in its way
AsyncCancel(r, m) ==
    IF r.pc = "sending"
    THEN AsyncFault(r, m, SendRaises("CancelledError"))
    ELSE [r EXCEPT !.outcome = Raised("CancelledError"), !.pc = "done"]

\* an except clause that catches everything
ExceptExceptionCatchesAll(exc) == TRUE

\* client.py line 969: except Exception; asyncio.CancelledError derives
\* from BaseException and passes it by
ExceptExceptionCatches(exc) == exc.what # "CancelledError"

\* client.py lines 967-977: what the caller of _run_request gets when
\* self._http.request ended with o
RunRequestOutcome(hooks, o) ==
    IF o.kind = "raise" /\ ExceptExceptionCatches(o)
    THEN RunRequestRaises(hooks, o)
    ELSE o

\* what is seen of a request on the wire and on the clock when it goes
\* from one position to another
TraceOf(from, to) ==
    CASE from = "loop" /\ to = "sending" -> <<"send_start">>
      [] from = "sending" /\ to = "resending" -> <<"send_end", "send_start">>
      [] from \in {"sending", "resending"} /\ to = "sleeping" ->
            <<"send_end", "sleep_start">>
      [] from \in {"sending", "resending"} /\ to = "done" -> <<"send_end">>
      [] from = "sleeping" -> <<"sleep_end">>
      [] OTHER -> <<>>

NewTask ==
    [run |-> RequestStart, trace |-> <<>>, inputs |-> <<>>,
     result |-> NoOutcome, cancelled |-> FALSE]

\* one step of the coroutine of a task, on ev
TaskStep(t, m, hooks, ev) ==
    LET r == IF ev.kind = "cancel"
             THEN AsyncCancel(t.run, m)
             ELSE AsyncRequestStep(t.run, m, ev)
    IN  [run |-> r,
         trace |-> t.trace \o TraceOf(t.run.pc, r.pc),
         inputs |-> Append(t.inputs, ev),
         result |-> IF r.pc = "done" THEN RunRequestOutcome(hooks, r.outcome)
                    ELSE t.result,
         cancelled |-> t.cancelled \/ ev.kind = "cancel"]

\* a client that keeps the attempt counter on itself
StepTaskSharedAttempt(ts, i, m, hooks, ev) ==
    LET stepped == TaskStep(ts[i], m, hooks, ev) IN
    [j \in DOMAIN ts |->
        IF j = i THEN stepped
        ELSE [ts[j] EXCEPT !.run.attempt = stepped.run.attempt]]

\* _client.py lines 197-201: url, last_exc, attempt, headers, response and
\* delay are locals of the coroutine, so that a step of one task changes
\* nothing of another
StepTask(ts, i, m, hooks, ev) ==
    [ts EXCEPT ![i] = TaskStep(ts[i], m, hooks, ev)]

ConcInit ==
    /\ conc_max_retries \in 0..MaxTaskRetries
    /\ conc_hooks \in TaskHooks
    /\ tasks = [i \in Tasks |-> NewTask]
    /\ TransportIdle
    /\ ErrorsIdle
    /\ FacadeIdle
    /\ PagerIdle
    /\ BulkIdle
    /\ GraphIdle
    /\ PoolIdle
    /\ PairIdle
    /\ BodyIdle
    /\ ConfigIdle
    /\ OpIdle

\* the scheduler runs task i, which is not waiting for the network: the
\* head of the loop, or the end of its sleep
TaskProceeds(i) ==
    /\ tasks[i].run.pc \in {"loop", "sleeping"}
    /\ tasks' = StepTask(tasks, i, conc_max_retries, conc_hooks,
                         SendRaises("None"))
    /\ UNCHANGED <<conc_max_retries, conc_hooks>>
    /\ UNCHANGED other_than_conc

\* the send of task i completes
TaskSendCompletes(i, ev) ==
    /\ tasks[i].run.pc \in {"sending", "resending"}
    /\ tasks' = StepTask(tasks, i, conc_max_retries, conc_hooks, ev)
    /\ UNCHANGED <<conc_max_retries, conc_hooks>>
    /\ UNCHANGED other_than_conc

\* the scheduler cancels task i while it is suspended in a send or a sleep
TaskCancelled(i) ==
    /\ tasks[i].run.pc \in {"sending", "resending", "sleeping"}
    /\ tasks' = StepTask(tasks, i, conc_max_retries, conc_hooks, Cancellation)
    /\ UNCHANGED <<conc_max_retries, conc_hooks>>
    /\ UNCHANGED other_than_conc

ConcNext ==
    \/ \E i \in Tasks : TaskProceeds(i)
    \/ \E i \in Tasks, ev \in TaskOutcomes : TaskSendCompletes(i, ev)
    \/ \E i \in Tasks : TaskCancelled(i)

ConcSpec == ConcInit /\ [][ConcNext]_vars

\* ----------------------------------------------------------------- C29
\* the request that _AsyncHTTPClient.request makes of these inputs alone
RECURSIVE C29_Replay(_, _)
C29_Replay(inputs, m) ==
    IF inputs = <<>> THEN RequestStart
    ELSE LET before == C29_Replay(SubSeq(inputs, 1, Len(inputs) - 1), m)
             ev == inputs[Len(inputs)]
         IN  IF ev.kind = "cancel"
             THEN AsyncCancel(before, m)
             ELSE AsyncRequestStep(before, m, ev)

\* the sends of the request that are in flight
C29_InFlight(trace) ==
    Cardinality({k \in 1..Len(trace) : trace[k] = "send_start"})
    - Cardinality({k \in 1..Len(trace) : trace[k] = "send_end"})

\* a send starts first of all, or right after the send or the sleep before
\* it has ended; sends and sleeps end only after they have started
C29_OneAtATime(trace) ==
    \A k \in 1..Len(trace) :
       /\ trace[k] = "send_start" =>
             k = 1 \/ trace[k - 1] \in {"send_end", "sleep_end"}
       /\ trace[k] = "send_end" => k > 1 /\ trace[k - 1] = "send_start"
       /\ trace[k] = "sleep_start" => k > 1 /\ trace[k - 1] = "send_end"
       /\ trace[k] = "sleep_end" => k > 1 /\ trace[k - 1] = "sleep_start"

\* the send of an attempt starts no earlier than the sleep after the
\* attempt before it allows
C29_AfterTheSleep(r) ==
    \A a, b \in 1..Len(r.sent) :
       r.sent[b].attempt = r.sent[a].attempt + 1 =>
          \E j \in 1..Len(r.slept) :
             /\ r.slept[j].attempt = r.sent[a].attempt
             /\ r.sent[b].at >= r.sent[a].at + r.slept[j].delay

\* C29: within one logical request the attempts are strictly sequential:
\* at most one send of the request is in flight, and the next send starts
\* only after the one before has completed and the backoff sleep, if any,
\* has elapsed; this holds under every interleaving of concurrent requests
\* through one client, and the attempt counter and the outcome of a
\* request depend on nothing but what the network did to that request.
C29_SequentialAttempts ==
    /\ [](\A i \in Tasks :
             /\ C29_InFlight(tasks[i].trace) \in {0, 1}
             /\ C29_InFlight(tasks[i].trace) = 1 <=>
                   tasks[i].run.pc \in {"sending", "resending"}
             /\ C29_OneAtATime(tasks[i].trace)
             /\ C29_AfterTheSleep(tasks[i].run)
             /\ tasks[i].run = C29_Replay(tasks[i].inputs, conc_max_retries))
    /\ [][\A i, j \in Tasks :
             (i # j /\ tasks'[i] # tasks[i]) => tasks'[j] = tasks[j]]_vars

\* task 1 sleeps after a fault of its first send while the second, paid
\* send of task 2 is in flight
C29_Witness ==
    /\ tasks[1].run.pc = "sleeping"
    /\ tasks[1].trace = <<"send_start", "send_end", "sleep_start">>
    /\ tasks[2].run.pc = "resending"
    /\ tasks[2].trace = <<"send_start", "send_end", "send_start">>
    /\ tasks[2].run.attempt = 0

\* ----------------------------------------------------------------- C30
\* C30: when the scheduler cancels a request that is suspended in a send
\* or in a backoff sleep, the cancellation reaches the caller: the
\* transport does not retry, makes no further send and starts no sleep
\* for that request, and neither the transport nor the facade swallows
\* the CancelledError or turns it into another error.
C30_CancellationPropagates ==
    /\ [](\A i \in Tasks :
             tasks[i].cancelled =>
                LET before == C29_Replay(SubSeq(tasks[i].inputs, 1,
                                                Len(tasks[i].inputs) - 1),
                                         conc_max_retries)
                IN
                /\ tasks[i].inputs[Len(tasks[i].inputs)] = Cancellation
                /\ before.pc \in {"sending", "resending", "sleeping"}
                /\ tasks[i].run.pc = "done"
                /\ tasks[i].run.outcome = Raised("CancelledError")
                /\ tasks[i].result = Raised("CancelledError")
                /\ tasks[i].run.sent = before.sent
                /\ tasks[i].run.slept = before.slept
                /\ tasks[i].run.attempt = before.attempt
                /\ tasks[i].trace[Len(tasks[i].trace)] \in {"send_end", "sleep_end"})
    /\ [][\A i \in Tasks : tasks[i].cancelled => tasks'[i] = tasks[i]]_vars

\* task 1 was cancelled in its backoff sleep, on a client with an
\* on-error hook that raises, while task 2 went on to its answer
C30_Witness ==
    /\ conc_hooks = <<"raises">>
    /\ tasks[1].cancelled
    /\ tasks[1].trace = <<"send_start", "send_end", "sleep_start", "sleep_end">>
    /\ tasks[1].result = Raised("CancelledError")
    /\ tasks[2].run.pc = "done"
    /\ tasks[2].result = Returned("object")

\* =========================================================================
\* The request bodies of store, recall and update (client.py), as built
\* from the arguments of the call
\* =========================================================================

\* ---- Python values of the arguments and of the members of a body
PyNone == [py |-> "None"]
Ellipsis == [py |-> "Ellipsis"]
PyValue(name) == [py |-> "value", of |-> name]
PyDict(members) == [py |-> "dict", members |-> members]

\* the keyword arguments with default None
StoreOptionals ==
    {"importance", "tags", "namespace", "memory_type", "session_id",
     "agent_id", "expires_at", "pinned", "metadata"}
RecallOptionals ==
    {"limit", "min_similarity", "namespace", "tags", "include_relations",
     "session_id", "agent_id", "after", "memory_type"}
UpdateOptionals ==
    {"content", "metadata", "importance", "memory_type", "namespace", "pinned"}

\* what a caller passes for an argument: nothing (its default), or a value;
\* update's expires_at has the default ... and may be passed None
ArgValues(op, name) ==
    CASE op = "update" /\ name = "expires_at" ->
            {Ellipsis, PyNone, PyValue(name)}
      [] name = "metadata" ->
            {PyNone, PyDict(EmptyDict), PyDict("k" :> PyValue("k"))}
      [] name \in {"content", "query"} /\ op # "update" -> {PyValue(name)}
      [] OTHER -> {PyNone, PyValue(name)}

ArgNames(op) ==
    CASE op = "store" -> {"content"} \cup StoreOptionals
      [] op = "recall" -> {"query"} \cup RecallOptionals
      [] op = "update" -> UpdateOptionals \cup {"expires_at"}

\* the calls of one operation: every choice of a value for each argument
RECURSIVE CallsOver(_, _)
CallsOver(op, names) ==
    IF names = {} THEN {EmptyDict}
    ELSE LET n == CHOOSE x \in names : TRUE
         IN  {(n :> v) @@ a : v \in ArgValues(op, n),
                              a \in CallsOver(op, names \ {n})}

BodyCalls(op) == CallsOver(op, ArgNames(op))

\* ---- the builders
\* a member that is written whatever the value
IfNotNoneAlways(body, key, v) == (key :> v) @@ body

\* if v is not None: body[key] = v
IfNotNone(body, key, v) == IF v # PyNone THEN (key :> v) @@ body ELSE body

\* the same for several arguments that go under their own names
RECURSIVE IfNotNoneEach(_, _, _)
IfNotNoneEach(body, names, args) ==
    IF names = {} THEN body
    ELSE LET n == CHOOSE x \in names : TRUE
         IN  IfNotNoneEach(IfNotNone(body, n, args[n]), names \ {n}, args)

\* metadata.copy() if metadata else {}
MetadataCopy(metadata) ==
    IF metadata # PyNone /\ DOMAIN metadata.members # {}
    THEN metadata.members ELSE EmptyDict

\* _build_store_body, lines 96-116
build_store_body(args) ==
    LET body == IfNotNoneEach("content" :> args["content"],
                              StoreOptionals \ {"tags", "metadata"}, args)
    IN  IF args["tags"] # PyNone \/ args["metadata"] # PyNone
        THEN ("metadata" :>
                PyDict(IfNotNone(MetadataCopy(args["metadata"]), "tags", args["tags"])))
             @@ body
        ELSE body

\* recall, lines 308-329
recall_body(args) ==
    LET body == IfNotNoneEach("query" :> args["query"],
                              RecallOptionals \ {"tags", "after", "memory_type"}, args)
    IN  IF args["tags"] # PyNone \/ args["after"] # PyNone
           \/ args["memory_type"] # PyNone
        THEN ("filters" :>
                PyDict(IfNotNoneEach(EmptyDict, {"tags", "after", "memory_type"}, args)))
             @@ body
        ELSE body

\* update, lines 411-426
update_body(args) ==
    LET body == IfNotNoneEach(EmptyDict, UpdateOptionals, args)
    IN  IF args["expires_at"] # Ellipsis
        THEN ("expires_at" :> args["expires_at"]) @@ body
        ELSE body

\* ---- state
BodyInit ==
    /\ build_op \in {"store", "recall", "update"}
    /\ build_args \in BodyCalls(build_op)
    /\ build_pc = "called"
    /\ json_body = EmptyDict
    /\ TransportIdle
    /\ ErrorsIdle
    /\ FacadeIdle
    /\ PagerIdle
    /\ BulkIdle
    /\ GraphIdle
    /\ PoolIdle
    /\ PairIdle
    /\ ConcIdle
    /\ ConfigIdle
    /\ OpIdle

\* the body handed to _run_request as json=body
Built(body) ==
    /\ build_pc = "called"
    /\ json_body' = body
    /\ build_pc' = "built"
    /\ UNCHANGED <<build_op, build_args>>
    /\ UNCHANGED other_than_body

\* store, lines 245-257
BuildStore == build_op = "store" /\ Built(build_store_body(build_args))

\* recall, lines 308-331
BuildRecall == build_op = "recall" /\ Built(recall_body(build_args))

\* update, lines 411-428
BuildUpdate == build_op = "update" /\ Built(update_body(build_args))

BodyNext ==
    \/ BuildStore
    \/ BuildRecall
    \/ BuildUpdate

BodySpec == BodyInit /\ [][BodyNext]_vars

\* ----------------------------------------------------------------- C31
\* where an argument goes in the body: under its own name, or inside
\* "metadata" (store's tags) or "filters" (recall's tags, after, memory_type)
C31_Nested(op, name) ==
    CASE op = "store" /\ name = "tags" -> "metadata"
      [] op = "recall" /\ name \in {"tags", "after", "memory_type"} -> "filters"
      [] OTHER -> "top"

\* the argument is in the body
C31_Sent(op, name, body) ==
    IF C31_Nested(op, name) = "top" THEN name \in DOMAIN body
    ELSE /\ C31_Nested(op, name) \in DOMAIN body
         /\ name \in DOMAIN body[C31_Nested(op, name)].members

\* a null in the body, at the top or one level down
C31_Nulls(body) ==
    {<<k>> : k \in {x \in DOMAIN body : body[x] = PyNone}}
    \cup UNION {{<<k, n>> : n \in {x \in DOMAIN body[k].members :
                                       body[k].members[x] = PyNone}} :
                k \in {x \in DOMAIN body : body[x].py = "dict"}}

\* C31: update with expires_at not supplied has no expires_at key in its
\* body, with None it has expires_at = null, with a value it has that
\* value; every other optional argument of update, store and recall that
\* is absent is not in the body (store's metadata then holds at most the
\* tags), and no body holds a null anywhere but there.
C31_AbsentOmitted ==
    build_pc = "built" =>
       /\ build_op = "update" =>
             /\ build_args["expires_at"] = Ellipsis =>
                   "expires_at" \notin DOMAIN json_body
             /\ build_args["expires_at"] # Ellipsis =>
                   /\ "expires_at" \in DOMAIN json_body
                   /\ json_body["expires_at"] = build_args["expires_at"]
       /\ \A n \in ArgNames(build_op) :
             (build_args[n] = PyNone /\ ~(build_op = "update" /\ n = "expires_at"))
                => IF build_op = "store" /\ n = "metadata"
                   THEN "metadata" \in DOMAIN json_body =>
                           DOMAIN json_body["metadata"].members = {"tags"}
                   ELSE ~C31_Sent(build_op, n, json_body)
       /\ C31_Nulls(json_body) \subseteq
             IF build_op = "update" THEN {<<"expires_at">>} ELSE {}

\* an update that clears the expiration and changes nothing else
C31_Witness ==
    /\ build_pc = "built"
    /\ build_op = "update"
    /\ build_args["expires_at"] = PyNone
    /\ json_body = ("expires_at" :> PyNone)

\* =========================================================================
\* Construction of a client (client.py __init__, config.py): the settings
\* resolved from the arguments, the environment and the config file
\* =========================================================================

\* ------------------------------------------------------ program constants
DEFAULT_BASE_URL == "https://api.memoclaw.com"
DEFAULT_TIMEOUT == "30.0"
DEFAULT_MAX_RETRIES == "2"
DEFAULT_POOL_MAX_CONNECTIONS == "10"
DEFAULT_POOL_MAX_KEEPALIVE_CONNECTIONS == "5"

\* the parameters of MemoClaw.__init__ that set up the client
Parameters ==
    {"private_key", "base_url", "timeout", "max_retries",
     "pool_max_connections", "pool_max_keepalive"}

\* the parameters config.py resolves
Resolved == {"private_key", "base_url"}

\* the defaults of _SyncHTTPClient.__init__ (private_key has none)
DefaultOf(name) ==
    CASE name = "base_url" -> Some(DEFAULT_BASE_URL)
      [] name = "timeout" -> Some(DEFAULT_TIMEOUT)
      [] name = "max_retries" -> Some(DEFAULT_MAX_RETRIES)
      [] name = "pool_max_connections" -> Some(DEFAULT_POOL_MAX_CONNECTIONS)
      [] name = "pool_max_keepalive" -> Some(DEFAULT_POOL_MAX_KEEPALIVE_CONNECTIONS)
      [] OTHER -> None

\* ---- what a construction is given
\* arguments: each parameter is passed, as "arg", or left out
CtorArgs == [Parameters -> {None, Some("arg")}]

\* the environment: the variable of a parameter is unset, empty or "env";
\* the variables of the four other parameters are set together or not at all
Environs ==
    {e \in [Parameters -> {None, Some(""), Some("env")}] :
        \A n, o \in Parameters \ Resolved : e[n] = e[o] /\ e[n] # Some("")}

\* the config file: missing, not JSON, JSON that is no object, or an object
\* whose member for a parameter is absent, empty or "cfg"
ConfigFiles ==
    {[kind |-> k, members |-> [n \in Parameters |-> None]] :
        k \in {"missing", "malformed", "not_object"}}
    \cup {[kind |-> "object", members |-> m] :
            m \in {c \in [Parameters -> {None, Some(""), Some("cfg")}] :
                     \A n, o \in Parameters \ Resolved :
                        c[n] = c[o] /\ c[n] # Some("")}}

\* ---- config.py
\* an optional string is truthy: neither None nor ""
NonEmpty(o) == o # None /\ o # Some("")

\* load_config raises: data.get on JSON that is no dict (lines 45-49 catch
\* JSONDecodeError and OSError only)
LoadConfigRaises(file) == file.kind = "not_object"

\* load_config, lines 38-51: cfg.private_key and cfg.url, None unless the
\* file is there and holds an object
load_config(file) ==
    [n \in Resolved |-> IF file.kind = "object" THEN file.members[n] ELSE None]

\* resolve_private_key (lines 63-76) and resolve_base_url (lines 85-95):
\* explicit, else env var, else config, else the default; None is the
\* ValueError of resolve_private_key
Resolve(explicit, env, cfg, default) ==
    IF explicit # None THEN explicit
    ELSE IF NonEmpty(env) THEN env
    ELSE IF NonEmpty(cfg) THEN cfg
    ELSE default

\* base_url.rstrip("/") on the URLs of the model, none of which ends in "/"
RStripSlash(url) == url

\* MemoClaw.__init__ lines 155-168 with _SyncHTTPClient.__init__ 84-87:
\* the settings of the client, one per parameter
SettingsOf(args, env, file) ==
    LET config == load_config(file)
    IN  [n \in Parameters |->
            IF n \in Resolved
            THEN Resolve(args[n], env[n], config[n], DefaultOf(n))
            ELSE IF args[n] # None THEN args[n] ELSE DefaultOf(n)]

\* ---- state
ConfigInit ==
    /\ ctor_class \in {"MemoClaw", "AsyncMemoClaw"}
    /\ ctor_args \in CtorArgs
    /\ environ \in Environs
    /\ config_file \in ConfigFiles
    /\ ctor_pc = "called"
    /\ settings = <<>>
    /\ ctor_raised = NoOutcome
    /\ TransportIdle
    /\ ErrorsIdle
    /\ FacadeIdle
    /\ PagerIdle
    /\ BulkIdle
    /\ GraphIdle
    /\ PoolIdle
    /\ PairIdle
    /\ ConcIdle
    /\ BodyIdle
    /\ OpIdle

\* __init__ of either client, lines 155-171
Construct ==
    /\ ctor_pc = "called"
    /\ ctor_pc' = "done"
    /\ IF LoadConfigRaises(config_file)
       THEN /\ ctor_raised' = Raised("AttributeError")
            /\ UNCHANGED settings
       ELSE LET resolved == SettingsOf(ctor_args, environ, config_file)
            IN  IF resolved["private_key"] = None
                THEN /\ ctor_raised' = Raised("ValueError")
                     /\ UNCHANGED settings
                ELSE /\ settings' =
                          [resolved EXCEPT !["base_url"] =
                              Some(RStripSlash(TheValue(resolved["base_url"])))]
                     /\ UNCHANGED ctor_raised
    /\ UNCHANGED <<ctor_class, ctor_args, environ, config_file>>
    /\ UNCHANGED other_than_config

ConfigNext == Construct

ConfigSpec == ConfigInit /\ [][ConfigNext]_vars

\* ----------------------------------------------------------------- C32
\* the first of argument, environment variable, config file and default
\* that gives the parameter a value
C32_ByPriority(n) ==
    IF ctor_args[n] # None THEN ctor_args[n]
    ELSE IF NonEmpty(environ[n]) THEN environ[n]
    ELSE IF config_file.kind = "object" /\ NonEmpty(config_file.members[n])
         THEN config_file.members[n]
    ELSE DefaultOf(n)

\* C32: each construction parameter takes its value from the explicit
\* argument when given, else from its environment variable when set, else
\* from the config file, else from its default; a signing key found in
\* none of the three raises a local error at construction.
C32_ArgumentEnvironmentConfigDefault ==
    ctor_pc = "done" =>
       IF C32_ByPriority("private_key") = None
       THEN ctor_raised = Raised("ValueError")
       ELSE /\ ctor_raised = NoOutcome
            /\ \A n \in Parameters : settings[n] = C32_ByPriority(n)

\* the same for the signing key and the base URL alone, on config files
\* that are missing, not JSON or an object
C32_KeyAndUrlByPriority ==
    (ctor_pc = "done" /\ config_file.kind # "not_object") =>
       IF C32_ByPriority("private_key") = None
       THEN ctor_raised = Raised("ValueError")
       ELSE /\ ctor_raised = NoOutcome
            /\ \A n \in Resolved : settings[n] = C32_ByPriority(n)

\* no argument for the timeout, its environment variable set: the client
\* has the default timeout
C32_EnvironmentIgnored ==
    /\ ctor_pc = "done"
    /\ ctor_args["timeout"] = None
    /\ environ["timeout"] = Some("env")
    /\ ctor_raised = NoOutcome
    /\ settings["timeout"] = Some(DEFAULT_TIMEOUT)

\* =========================================================================
\* One logical request from the facade down to the wire: _run_request
\* (client.py) with its three hook chains around request() (_client.py)
\* and every send request() makes
\* =========================================================================

\* ---------------------------------------------------------------- bounds
\* largest max_retries of the client
MaxOpRetries == 1
\* largest number of before-request hooks on the client
MaxOpHooks == 2

\* ---- the client and the call
\* the hooks registered on the client, by chain
OpHooks ==
    [before : UNION {[1..n -> HookBehaviours] : n \in 0..MaxOpHooks},
     after : {<<>>, <<"returns_value">>, <<"raises">>},
     error : {<<>>, <<"returns">>, <<"raises">>, <<"returns", "returns">>}]

\* what an operation hands to _run_request: store (a body, no params) and
\* list (params, no body)
OpCalls ==
    {[method |-> "POST", path |-> "/v1/store",
      json |-> Some(Running("content")), params |-> None],
     [method |-> "GET", path |-> "/v1/memories",
      json |-> None, params |-> Some("limit")]}

\* ---- what goes on the wire
\* _client.py lines 104 and 197: url = f"{self._base_url}{path}"
UrlOf(path) == <<DEFAULT_BASE_URL, path>>

\* the arguments of request(): client.py lines 205 and 968
PassedToRequest(c, body) ==
    [method |-> c.method, url |-> UrlOf(c.path), json |-> body,
     params |-> c.params]

\* _client.py lines 112-114 and 204-206: the send of an attempt
FirstSend(passed, sent_headers) ==
    [method |-> passed.method, url |-> passed.url, headers |-> sent_headers,
     json |-> passed.json, params |-> passed.params]

\* a paid re-send that leaves the body behind
PaidResendWithoutBody(passed, sent_headers) ==
    [method |-> passed.method, url |-> passed.url, headers |-> sent_headers,
     json |-> None, params |-> passed.params]

\* _client.py lines 126-128 and 219-221: the re-send with payment headers
PaidResend(passed, sent_headers) ==
    [method |-> passed.method, url |-> passed.url, headers |-> sent_headers,
     json |-> passed.json, params |-> passed.params]

\* an entry of the log: a hook that was called, or a send
OpEvent(kind, i, wire) == [event |-> kind, hook |-> i, wire |-> wire]

\* the sends a step of request() made, as log entries
SendsOf(r, stepped, passed) ==
    IF Len(stepped.sent) = Len(r.sent) THEN <<>>
    ELSE LET last == stepped.sent[Len(stepped.sent)] IN
         <<OpEvent("send", 0,
                   IF stepped.pc = "resending"
                   THEN PaidResend(passed, last.headers)
                   ELSE FirstSend(passed, last.headers))>>

\* a facade that runs the on-error chain whatever request() did
ChainAfterAlwaysOnError(o) == "on_error"

\* client.py lines 204-210 and 967-973: where _run_request goes on when
\* request() has ended with o
ChainAfter(o) ==
    IF o.kind = "return" THEN "after_response"
    ELSE IF ExceptExceptionCatches(o) THEN "on_error"
    ELSE "done"

\* ---- state
OpInit ==
    /\ op_client \in {"MemoClaw", "AsyncMemoClaw"}
    /\ op_max_retries \in 0..MaxOpRetries
    /\ op_hooks \in OpHooks
    /\ op_call \in OpCalls
    /\ op_pc = "before_request"
    /\ op_index = 1
    /\ op_json = op_call.json
    /\ op_data = None
    /\ op_http = RequestStart
    /\ op_log = <<>>
    /\ op_result = NoOutcome
    /\ TransportIdle
    /\ ErrorsIdle
    /\ FacadeIdle
    /\ PagerIdle
    /\ BulkIdle
    /\ GraphIdle
    /\ PoolIdle
    /\ PairIdle
    /\ ConcIdle
    /\ BodyIdle
    /\ ConfigIdle

\* client.py lines 200-203: one iteration over the before-request hooks
OpBeforeRequestHook ==
    /\ op_pc = "before_request"
    /\ op_index <= Len(op_hooks.before)
    /\ op_log' = Append(op_log, OpEvent("before_request", op_index, <<>>))
    /\ IF op_hooks.before[op_index] = "raises"
       THEN /\ op_result' = Raised("HookError")
            /\ op_pc' = "done"
            /\ UNCHANGED <<op_json, op_index>>
       ELSE /\ op_json' = Replaced(op_json,
                   HookReturn(op_hooks.before[op_index], op_index, op_json))
            /\ op_index' = op_index + 1
            /\ UNCHANGED <<op_result, op_pc>>
    /\ UNCHANGED <<op_client, op_max_retries, op_hooks, op_call, op_data, op_http>>
    /\ UNCHANGED other_than_op

\* request() has taken a step: its sends go to the log, and when it has
\* ended _run_request goes on (client.py lines 205-210)
RequestStepped(stepped) ==
    /\ op_http' = stepped
    /\ op_log' = op_log \o SendsOf(op_http, stepped, PassedToRequest(op_call, op_json))
    /\ IF stepped.pc = "done"
       THEN /\ op_pc' = ChainAfter(stepped.outcome)
            /\ op_index' = 1
            /\ op_data' = IF stepped.outcome.kind = "return"
                          THEN Some(Running(stepped.outcome.what)) ELSE None
            /\ op_result' = IF ChainAfter(stepped.outcome) = "done"
                            THEN stepped.outcome ELSE op_result
       ELSE /\ op_pc' = "request"
            /\ UNCHANGED <<op_index, op_data, op_result>>
    /\ UNCHANGED <<op_client, op_max_retries, op_hooks, op_call, op_json>>
    /\ UNCHANGED other_than_op

\* one step of request() of the client's transport
OpRequestStep(ev) ==
    IF op_client = "MemoClaw"
    THEN SyncRequestStep(op_http, op_max_retries, ev)
    ELSE AsyncRequestStep(op_http, op_max_retries, ev)

\* client.py line 205: the before-request chain is through and request()
\* is entered; later, the head of its loop and the end of a sleep
OpProceeds ==
    /\ \/ op_pc = "before_request" /\ op_index > Len(op_hooks.before)
       \/ op_pc = "request"
    /\ op_http.pc \in {"loop", "sleeping"}
    /\ RequestStepped(OpRequestStep(SendRaises("None")))

\* the send in flight raises or is answered
OpSendCompletes(ev) ==
    /\ op_pc = "request"
    /\ op_http.pc \in {"sending", "resending"}
    /\ RequestStepped(OpRequestStep(ev))

\* the scheduler cancels the coroutine of an AsyncMemoClaw request while
\* it waits for a send or sleeps
OpCancelled ==
    /\ op_client = "AsyncMemoClaw"
    /\ op_pc = "request"
    /\ op_http.pc \in {"sending", "resending", "sleeping"}
    /\ RequestStepped(AsyncCancel(op_http, op_max_retries))

\* client.py lines 207-208: one iteration over the on-error hooks
OpOnErrorHook ==
    /\ op_pc = "on_error"
    /\ op_index <= Len(op_hooks.error)
    /\ op_log' = Append(op_log, OpEvent("on_error", op_index, <<>>))
    /\ IF op_hooks.error[op_index] = "raises"
       THEN /\ op_result' = Raised("HookError")
            /\ op_pc' = "done"
            /\ UNCHANGED op_index
       ELSE /\ op_index' = op_index + 1
            /\ UNCHANGED <<op_result, op_pc>>
    /\ UNCHANGED <<op_client, op_max_retries, op_hooks, op_call, op_json,
                   op_data, op_http>>
    /\ UNCHANGED other_than_op

\* client.py line 209: raise
OpReraise ==
    /\ op_pc = "on_error"
    /\ op_index > Len(op_hooks.error)
    /\ op_result' = op_http.outcome
    /\ op_pc' = "done"
    /\ UNCHANGED <<op_client, op_max_retries, op_hooks, op_call, op_json,
                   op_data, op_http, op_index, op_log>>
    /\ UNCHANGED other_than_op

\* client.py lines 210-213: one iteration over the after-response hooks
OpAfterResponseHook ==
    /\ op_pc = "after_response"
    /\ op_index <= Len(op_hooks.after)
    /\ op_log' = Append(op_log, OpEvent("after_response", op_index, <<>>))
    /\ IF op_hooks.after[op_index] = "raises"
       THEN /\ op_result' = Raised("HookError")
            /\ op_pc' = "done"
            /\ UNCHANGED <<op_data, op_index>>
       ELSE /\ op_data' = Replaced(op_data,
                   HookReturn(op_hooks.after[op_index], op_index, op_data))
            /\ op_index' = op_index + 1
            /\ UNCHANGED <<op_result, op_pc>>
    /\ UNCHANGED <<op_client, op_max_retries, op_hooks, op_call, op_json, op_http>>
    /\ UNCHANGED other_than_op

\* client.py line 214: return data
OpReturn ==
    /\ op_pc = "after_response"
    /\ op_index > Len(op_hooks.after)
    /\ op_result' = Returned(TheValue(op_data).base)
    /\ op_pc' = "done"
    /\ UNCHANGED <<op_client, op_max_retries, op_hooks, op_call, op_json,
                   op_data, op_http, op_index, op_log>>
    /\ UNCHANGED other_than_op

OpNext ==
    \/ OpBeforeRequestHook
    \/ OpProceeds
    \/ \E ev \in TaskOutcomes : OpSendCompletes(ev)
    \/ OpCancelled
    \/ OpOnErrorHook
    \/ OpReraise
    \/ OpAfterResponseHook
    \/ OpReturn

OpSpec == OpInit /\ [][OpNext]_vars

\* ----------------------------------------------------------------- C34
\* the hooks of a chain that were called, in the order of the calls
C34_Called(kind) ==
    LET calls == SelectSeq(op_log, LAMBDA e : e.event = kind)
    IN  [k \in 1..Len(calls) |-> calls[k].hook]

\* how far a chain gets: to its first hook that raises, or to its end
C34_UpTo(hooks) ==
    IF \E i \in 1..Len(hooks) : hooks[i] = "raises"
    THEN CHOOSE i \in 1..Len(hooks) :
            /\ hooks[i] = "raises"
            /\ \A j \in 1..(i - 1) : hooks[j] # "raises"
    ELSE Len(hooks)

\* the chain has run, once: each hook once, in order, up to one that raised
C34_RanOnce(kind, hooks) == C34_Called(kind) = [k \in 1..C34_UpTo(hooks) |-> k]

C34_NotRun(kind) == C34_Called(kind) = <<>>

\* the positions of the sends in the log
C34_Sends == {k \in 1..Len(op_log) : op_log[k].event = "send"}

\* the before-request chain runs once, before the first send, and not
\* again for a retry or a paid re-send
C34_BeforeChainOnce ==
    /\ \A k \in 1..Len(C34_Called("before_request")) :
          C34_Called("before_request")[k] = k
    /\ C34_Sends # {} =>
          /\ C34_RanOnce("before_request", op_hooks.before)
          /\ \A k \in 1..Len(op_log), snd \in C34_Sends :
                op_log[k].event = "before_request" => k < snd

C35_ButHeaders(wire) == [wire EXCEPT !.headers = EmptyDict]

\* C35: all sends of one logical request, every attempt and every paid
\* re-send, carry the same method, URL, body and query params, the body
\* being the one the before-request hook chain left; the sends differ in
\* their headers at most.
C35_SameRequestEverySend ==
    /\ \A k \in C34_Sends :
          /\ op_log[k].wire.method = op_call.method
          /\ op_log[k].wire.url = UrlOf(op_call.path)
          /\ op_log[k].wire.params = op_call.params
          /\ op_log[k].wire.json =
                C17_ValueAfter(op_hooks.before, op_call.json, Len(op_hooks.before))
    /\ \A k, l \in C34_Sends :
          C35_ButHeaders(op_log[k].wire) = C35_ButHeaders(op_log[l].wire)

\* a store whose body the second of two before-request hooks replaced,
\* sent three times: an attempt, its paid re-send, and a second attempt
C35_Witness ==
    /\ op_call.method = "POST"
    /\ op_hooks.before = <<"returns_none", "returns_value">>
    /\ Cardinality(C34_Sends) = 3
    /\ op_http.pc = "sending"
    /\ op_http.attempt = 1
    /\ \A k \in C34_Sends :
          op_log[k].wire.json = Some([base |-> "content", marks |-> <<2>>])
    /\ \E k, l \in C34_Sends : op_log[k].wire.headers # op_log[l].wire.headers

\* ----------------------------------------------------------------- C36
\* the sends of a request that open an attempt: the first, and each whose
\* attempt is not that of the send before it
C36_Opening(r) ==
    {i \in 1..Len(r.sent) : i = 1 \/ r.sent[i - 1].attempt # r.sent[i].attempt}

\* payment headers go out only with the send that directly follows the
\* opening send of the same attempt; every attempt opens with nothing but
\* a credential built at that moment
C36_PaymentHeadersOfOneAttempt(r) ==
    /\ \A i \in C36_Opening(r) :
          r.sent[i].headers = ("x-wallet-auth" :> GenerateWalletAuth(r.sent[i].at))
    /\ \A i \in (1..Len(r.sent)) \ C36_Opening(r) :
          /\ i - 1 \in C36_Opening(r)
          /\ r.sent[i].headers =
                Update(r.sent[i - 1].headers, "x-payment" :> "paid-token")

\* C36: the payment headers obtained for an attempt are attached only to
\* the immediate re-send of that attempt: every later attempt of the same
\* logical request starts from headers that hold a freshly built
\* credential and none of the earlier payment headers; in the sync and in
\* the async transport.
C36_PaymentHeadersNotCarriedOver ==
    /\ C36_PaymentHeadersOfOneAttempt(sync_run)
    /\ C36_PaymentHeadersOfOneAttempt(async_run)

\* an attempt with a paid re-send, then the opening send of the next
C36_Witness ==
    /\ Len(async_run.sent) = 3
    /\ Len(sync_run.sent) = 3
    /\ "x-payment" \in DOMAIN async_run.sent[2].headers
    /\ async_run.sent[3].attempt = 1
    /\ DOMAIN async_run.sent[3].headers = {"x-wallet-auth"}
    /\ DOMAIN sync_run.sent[3].headers = {"x-wallet-auth"}

\* ----------------------------------------------------------------- C39
\* C39: for every max_retries a client can be constructed with, a logical
\* request issues at least one network attempt and ends by returning or
\* raising inside the attempt loop: the loop head always has another
\* iteration to run, so the code after the loop is never reached.
C39_NeverFallsThrough ==
    /\ pc = "loop" => attempt \in 0..max_retries
    /\ pc = "done" => Len(sent) >= 1

\* the same for the clients constructed with max_retries >= 0
C39_NeverFallsThroughWithRetriesFromZero ==
    max_retries >= 0 => C39_NeverFallsThrough

\* ----------------------------------------------------------------- C38
\* the attempt counter values the request used
C38_Attempts == {sent[i].attempt : i \in 1..Len(sent)}

\* C38: a backoff sleep happens only between two consecutive attempts:
\* none before the first attempt, none between a 402 response and its
\* paid re-send, none after the send that produces the final outcome; the
\* number of sleeps is the number of attempts (counter values used) minus
\* one.
C38_SleepsBetweenAttempts ==
    /\ \A k \in 1..Len(slept) :
          /\ slept[k].attempt = k - 1
          /\ \E i \in 1..Len(sent) : sent[i].attempt = k - 1
          /\ (pc # "loop" \/ k < Len(slept)) =>
                \E i \in 1..Len(sent) : sent[i].attempt = k
    /\ \A i \in 1..(Len(sent) - 1) :
          IF sent[i + 1].attempt = sent[i].attempt
          THEN sent[i + 1].at = sent[i].at
          ELSE /\ sent[i + 1].attempt = sent[i].attempt + 1
               /\ sent[i + 1].at = sent[i].at + slept[sent[i].attempt + 1].delay
    /\ pc = "done" => Len(slept) = Cardinality(C38_Attempts) - 1

\* the same for the requests that make an attempt at all
C38_SleepsBetweenAttemptsMade ==
    max_retries >= 0 => C38_SleepsBetweenAttempts

\* ----------------------------------------------------------------- C37
\* the execute that just ended raised
C37_Raised == bulk_pc = "done" /\ bulk_result.kind = "raise"

\* every chunk of the submitted list was called and none of the calls
\* raised
C37_EveryChunkSucceeded ==
    /\ \A k \in 1..Len(chunk_calls) : ~chunk_calls[k].raised
    /\ StoredBy(chunk_calls, Len(chunk_calls)) = submitted

\* the items stored by the execute before, when that one raised, are in
\* the list this execute works on and go out again in its chunk calls
C37_SentAgain ==
    \A n \in 1..Len(executed) :
       (n = Len(executed) /\ executed[n].raised /\ bulk_pc # "ready") =>
          /\ submitted = executed[n].submitted
          /\ SubSeq(submitted, 1, Len(executed[n].stored)) = executed[n].stored
          /\ chunk_calls # <<>> =>
                chunk_calls[1].items =
                   Chunk(executed[n].submitted, 0, BatchStore_MAX_BATCH_SIZE)
          /\ (bulk_pc = "done" /\ bulk_result.kind = "return") =>
                SubSeq(StoredBy(chunk_calls, Len(chunk_calls)), 1,
                       Len(executed[n].stored)) = executed[n].stored

\* C37: BatchStore.execute empties the pending list only after every
\* chunk call has succeeded; when a chunk call raises the pending list is
\* as it was before execute, the items of the chunks already stored
\* included, so a later execute sends those items again; an execute on an
\* empty pending list makes no network call and returns count 0.
C37_ClearedOnlyAfterEveryChunk ==
    /\ [](bulk_op = "execute" =>
            /\ bulk_pc = "loop" => pending = submitted
            /\ C37_Raised =>
                  /\ pending = submitted
                  /\ \E k \in 1..Len(chunk_calls) : chunk_calls[k].raised
                  /\ SubSeq(pending, 1,
                            Len(StoredBy(chunk_calls, Len(chunk_calls))))
                        = StoredBy(chunk_calls, Len(chunk_calls))
            /\ (bulk_pc = "done" /\ bulk_result.kind = "return"
                /\ submitted # <<>>) =>
                  /\ pending = <<>>
                  /\ C37_EveryChunkSucceeded
            /\ (bulk_pc = "done" /\ submitted = <<>>) =>
                  /\ chunk_calls = <<>>
                  /\ bulk_result =
                       [kind |-> "return",
                        value |-> [ids |-> <<>>, count |-> 0,
                                   stored |-> FALSE]]
            /\ C37_SentAgain)
    /\ [][(bulk_op = "execute" /\ pending' # pending) =>
            /\ pending' = <<>>
            /\ bulk_result'.kind = "return"
            /\ C37_EveryChunkSucceeded]_vars

\* an execute of 150 items stored the first chunk and raised on the
\* second; the execute after it sent all 150 again and emptied the list
C37_Witness ==
    /\ bulk_op = "execute"
    /\ Len(executed) = 1
    /\ executed[1].raised
    /\ Len(executed[1].submitted) = 150
    /\ Len(executed[1].stored) = 100
    /\ bulk_pc = "done"
    /\ bulk_result.kind = "return"
    /\ bulk_result.value.count = 150
    /\ chunk_calls[1].items = executed[1].stored
    /\ pending = <<>>

====
